---- MODULE Spec2Model ----
(***************************************************************************)
(* Model of the event recommendation engine of GCventease:                 *)
(*   backend_python/app/services/recommendation_service.py                 *)
(*   backend_python/app/api/v1/endpoints/analytics.py                      *)
(*                                                                         *)
(* Strings are sequences of one-character strings, so that lower(),        *)
(* substring tests, ' '.join and tokenisation are computed, not assumed.   *)
(* Scores are Python floats in the source; the model keeps them in         *)
(* fixed point, Scale units per point.  An event date is kept as its       *)
(* textual kind plus its distance in days from datetime.now().date().      *)
(***************************************************************************)
EXTENDS Integers, Sequences, FiniteSets, TLC

(***************************************************************************)
(* Bounds of the model                                                     *)
(***************************************************************************)
MaxEvents == 2
MaxTopN == 2
MaxConcEvents == 1
MaxCreated == 2
MaxParticipations == 2

(***************************************************************************)
(* Program constants                                                       *)
(***************************************************************************)
\* fixed-point units per score point
Scale == 10 * 100
CategoryExact == 30
CategoryPartial == 15
TagPoints == 5
TagCap == 20
TextMax == 25
DateMax == 15
DateWindow == 30
PopularityHigh == 10
PopularityLow == 5
ColdBase == 40
ColdPopularityHigh == 20
ColdPopularityLow == 10
ColdDateBonus == 10
MaxFeatures == 100
FallbackScore == 50
FallbackConfidence == 5
NoDateDays == 999
SoonDays == 7

\* Python None where a string is expected
NULL == <<"None">>

\* None where a list of strings is expected (tags)
NoList == <<NULL>>

(***************************************************************************)
(* Strings                                                                 *)
(***************************************************************************)
\* the characters of the model in code point order
CharOrd == <<" ", "A", "M", "a", "c", "e", "h", "i", "l", "m", "p", "r", "s", "t", "u", "v", "y">>

CharIndex == [c \in {CharOrd[i] : i \in DOMAIN CharOrd} |->
                 CHOOSE i \in DOMAIN CharOrd : CharOrd[i] = c]

LowerChar(c) == IF c = "A" THEN "a" ELSE IF c = "M" THEN "m" ELSE c

\* str.lower()
Lower(s) == [i \in 1..Len(s) |-> LowerChar(s[i])]

\* a in b  (Python substring test)
IsSubstring(a, b) ==
    \E i \in 0..(Len(b) - Len(a)) : SubSeq(b, i + 1, i + Len(a)) = a

RECURSIVE Join(_)
\* ' '.join(parts)
Join(parts) ==
    IF parts = <<>> THEN <<>>
    ELSE IF Len(parts) = 1 THEN parts[1]
    ELSE parts[1] \o <<" ">> \o Join(Tail(parts))

RECURSIVE SplitAcc(_, _, _)
SplitAcc(s, cur, acc) ==
    IF s = <<>> THEN (IF cur = <<>> THEN acc ELSE Append(acc, cur))
    ELSE IF Head(s) = " "
         THEN SplitAcc(Tail(s), <<>>, IF cur = <<>> THEN acc ELSE Append(acc, cur))
         ELSE SplitAcc(Tail(s), Append(cur, Head(s)), acc)

\* str.split(): the maximal runs of non-space characters
Split(s) == SplitAcc(s, <<>>, <<>>)

RECURSIVE LexLess(_, _)
\* a < b on Python strings
LexLess(a, b) ==
    IF b = <<>> THEN FALSE
    ELSE IF a = <<>> THEN TRUE
    ELSE IF Head(a) = Head(b) THEN LexLess(Tail(a), Tail(b))
    ELSE CharIndex[Head(a)] < CharIndex[Head(b)]

Range(f) == {f[i] : i \in DOMAIN f}

RECURSIVE SumSeq(_)
SumSeq(s) == IF s = <<>> THEN 0 ELSE Head(s) + SumSeq(Tail(s))

Min(a, b) == IF a < b THEN a ELSE b
Max(a, b) == IF a > b THEN a ELSE b

(***************************************************************************)
(* The vectorizer: TfidfVectorizer(max_features=100, stop_words='english', *)
(* ngram_range=(1, 2)), one instance per RecommendationService.            *)
(***************************************************************************)
\* the words of sklearn's English stop list that the model's alphabet spells
StopWords == {<<"t", "h", "e">>, <<"h", "i", "s">>, <<"t", "h", "a", "t">>}

\* token_pattern (?u)\b\w\w+\b on the lower-cased text, stop words removed
Tokens(text) ==
    SelectSeq(Split(Lower(text)), LAMBDA w : Len(w) >= 2 /\ w \notin StopWords)

\* the analyzer: the unigrams, then the bigrams of adjacent tokens
Analyze(text) ==
    LET toks == Tokens(text)
    IN  toks \o [i \in 1..(IF Len(toks) = 0 THEN 0 ELSE Len(toks) - 1) |->
                    toks[i] \o <<" ">> \o toks[i + 1]]

RECURSIVE InsertTerm(_, _)
InsertTerm(sorted, term) ==
    IF sorted = <<>> THEN <<term>>
    ELSE IF LexLess(term, Head(sorted)) THEN <<term>> \o sorted
    ELSE <<Head(sorted)>> \o InsertTerm(Tail(sorted), term)

RECURSIVE SortTerms(_)
\* sorted(vocabulary)
SortTerms(S) ==
    IF S = {} THEN <<>>
    ELSE LET t == CHOOSE x \in S : TRUE
         IN  InsertTerm(SortTerms(S \ {t}), t)

CountIn(term, terms) == Cardinality({i \in DOMAIN terms : terms[i] = term})

RECURSIVE TopFeatures(_, _, _)
\* _limit_features: the `limit` terms with the highest corpus frequency
TopFeatures(S, freq, limit) ==
    IF S = {} \/ limit = 0 THEN {}
    ELSE LET m == CHOOSE x \in S : \A y \in S \ {x} :
                      freq[x] > freq[y] \/ (freq[x] = freq[y] /\ LexLess(x, y))
         IN  {m} \cup TopFeatures(S \ {m}, freq, limit - 1)

\* CountVectorizer._count_vocab + _limit_features: the feature names of the
\* two documents, in feature index order; <<>> makes fit_transform raise
\* ValueError("empty vocabulary")
CountVocab(texts) ==
    LET docs == [d \in DOMAIN texts |-> Analyze(texts[d])]
        all  == UNION {Range(docs[d]) : d \in DOMAIN docs}
        freq == [t \in all |-> SumSeq([d \in DOMAIN docs |-> CountIn(t, docs[d])])]
    IN  SortTerms(IF Cardinality(all) <= MaxFeatures THEN all
                  ELSE TopFeatures(all, freq, MaxFeatures))

\* the term count matrix X of the documents over a vocabulary
CountMatrix(vocab, texts) ==
    [d \in DOMAIN texts |->
        LET doc == Analyze(texts[d])
        IN  [i \in DOMAIN vocab |-> CountIn(vocab[i], doc)]]

\* smooth idf of a term in df of n = 2 documents, ln((1 + n) / (1 + df)) + 1,
\* in 1/Scale
IdfOf(df) == IF df = 0 THEN 2099 ELSE IF df = 1 THEN 1405 ELSE 1000

\* TfidfTransformer.fit: idf_ of the count matrix
FitIdf(X) ==
    IF X = <<>> THEN <<>>
    ELSE [i \in DOMAIN X[1] |->
            IdfOf(Cardinality({d \in DOMAIN X : X[d][i] > 0}))]

RECURSIVE SqrtBetween(_, _, _)
SqrtBetween(x, lo, hi) ==
    IF lo >= hi THEN lo
    ELSE LET mid == (lo + hi) \div 2
         IN  IF mid * mid >= x THEN SqrtBetween(x, lo, mid)
             ELSE SqrtBetween(x, mid + 1, hi)

\* the least r with r * r >= x
SqrtCeil(x) == SqrtBetween(x, 0, 46340)

Dot(a, b) == SumSeq([i \in DOMAIN a |-> a[i] * b[i]])

\* TfidfTransformer.transform then cosine_similarity of row 0 and row 1, times
\* TextMax, in 1/Scale points; a row without terms has similarity 0
CosineTimesMax(X, idf) ==
    LET u  == [i \in DOMAIN idf |-> X[1][i] * idf[i]]
        e  == [i \in DOMAIN idf |-> X[2][i] * idf[i]]
        nu == SqrtCeil(Dot(u, u))
        ne == SqrtCeil(Dot(e, e))
    IN  IF nu = 0 \/ ne = 0 THEN 0
        ELSE (((Dot(u, e) * 10) \div nu) * ((TextMax * Scale) \div 10)) \div ne

\* the vectorizer after construction: not fitted
NewVectorizer == [vocabulary_ |-> <<>>, idf_ |-> <<>>]

\* what the analyzer and CountVectorizer._count_vocab make of the two texts:
\* the feature names and the term count matrix X (both local to the call)
CountTexts(texts) ==
    LET vocab == CountVocab(texts)
    IN  [vocab |-> vocab, X |-> CountMatrix(vocab, texts)]

\* faulty variant: a vectorizer that is fitted already is not fitted again
FitTransformStale(vectorizer, counted) ==
    IF vectorizer.vocabulary_ # <<>> THEN vectorizer
    ELSE [vocabulary_ |-> counted.vocab, idf_ |-> FitIdf(counted.X)]

\* self.vectorizer.fit_transform(texts): the state it leaves in the
\* vectorizer; vocabulary_ and idf_ are assigned anew from the call's texts
FitTransform(vectorizer, counted) ==
    [vocabulary_ |-> counted.vocab, idf_ |-> FitIdf(counted.X)]

\* TfidfTransformer.transform checks the width of X against the fitted idf_
TransformRaises(X, idf) == Len(X[1]) # Len(idf)

(***************************************************************************)
(* RecommendationService.calculate_similarity_score and its helpers        *)
(***************************************************************************)
\* [cat.lower() for cat in user_categories]
LowerAll(strs) == [i \in DOMAIN strs |-> Lower(strs[i])]

\* event.get('tags', []) or [], lower-cased
EventTags(event) == IF event.tags = NoList THEN <<>> ELSE LowerAll(event.tags)

\* faulty variant: the partial match is tested with `if`, not `elif`
CategoryScoreBothBranches(user_profile, event) ==
    LET user_categories == user_profile.favorite_categories
        event_category  == Lower(event.category)
    IN  (IF \E i \in DOMAIN user_categories : Lower(user_categories[i]) = event_category
         THEN CategoryExact * Scale ELSE 0)
        + (IF \E i \in DOMAIN user_categories :
                  \/ IsSubstring(Lower(user_categories[i]), event_category)
                  \/ IsSubstring(event_category, Lower(user_categories[i]))
           THEN CategoryPartial * Scale ELSE 0)

\* faulty variant: only "favorite in event category" is tested
CategoryScoreOneDirection(user_profile, event) ==
    LET user_categories == user_profile.favorite_categories
        event_category  == Lower(event.category)
    IN  IF \E i \in DOMAIN user_categories : Lower(user_categories[i]) = event_category
        THEN CategoryExact * Scale
        ELSE IF \E i \in DOMAIN user_categories :
                    IsSubstring(Lower(user_categories[i]), event_category)
             THEN CategoryPartial * Scale
             ELSE 0

\* 1. Category match: 30 on an exact match, else 15 on a substring match
CategoryScore(user_profile, event) ==
    LET user_categories == user_profile.favorite_categories
        event_category  == Lower(event.category)
    IN  IF \E i \in DOMAIN user_categories : Lower(user_categories[i]) = event_category
        THEN CategoryExact * Scale
        ELSE IF \E i \in DOMAIN user_categories :
                    \/ IsSubstring(Lower(user_categories[i]), event_category)
                    \/ IsSubstring(event_category, Lower(user_categories[i]))
             THEN CategoryPartial * Scale
             ELSE 0

\* the favorite tags that equal, or are contained in, some event tag
MatchingTags(user_profile, event) ==
    LET event_tags == EventTags(event)
    IN  SelectSeq(user_profile.favorite_tags,
                  LAMBDA tag : \E j \in DOMAIN event_tags :
                                   IsSubstring(Lower(tag), event_tags[j]))

\* faulty variant: the cap of 20 is not applied
TagScoreUncapped(user_profile, event) ==
    Len(MatchingTags(user_profile, event)) * TagPoints * Scale

\* 2. Tag match: 5 per matching favorite tag, at most 20
TagScore(user_profile, event) ==
    Min(TagCap, Len(MatchingTags(user_profile, event)) * TagPoints) * Scale

RECURSIVE HistoryParts(_)
HistoryParts(history) ==
    IF history = <<>> THEN <<>>
    ELSE <<Lower(Head(history).title), Lower(Head(history).category)>>
         \o LowerAll(Head(history).tags) \o HistoryParts(Tail(history))

\* _build_user_text
BuildUserText(user_profile) ==
    Join(LowerAll(user_profile.favorite_categories)
         \o LowerAll(user_profile.favorite_tags)
         \o HistoryParts(user_profile.participation_history))

\* _build_event_text
BuildEventText(event) ==
    Join(<<Lower(event.title), Lower(event.description), Lower(event.category)>>
         \o EventTags(event))

\* the except branch: shared words over user words, times 25
WordOverlapScore(user_text, event_text) ==
    LET user_words  == Range(Split(Lower(user_text)))
        event_words == Range(Split(Lower(event_text)))
    IN  IF user_words = {} THEN 0
        ELSE (Cardinality(user_words \cap event_words) * TextMax * Scale)
                 \div Cardinality(user_words)

\* lines 56-61 and the except branch: the two texts, what the vectorizer
\* counts in them, and the word overlap score of the except branch
TextFeatures(user_profile, event) ==
    LET user_text  == BuildUserText(user_profile)
        event_text == BuildEventText(event)
    IN  [user_text |-> user_text, event_text |-> event_text,
         counted |-> CountTexts(<<user_text, event_text>>),
         overlap |-> WordOverlapScore(user_text, event_text)]

\* 3. Text similarity: the points, and the vectorizer as the call leaves it
TextScore(vectorizer, features) ==
    IF features.user_text = <<>> \/ features.event_text = <<>>
    THEN [points |-> 0, vectorizer |-> vectorizer]
    ELSE IF features.counted.vocab = <<>>
         THEN [points |-> features.overlap, vectorizer |-> vectorizer]
         ELSE LET fitted == FitTransform(vectorizer, features.counted)
              IN  [points |-> IF TransformRaises(features.counted.X, fitted.idf_)
                              THEN features.overlap
                              ELSE CosineTimesMax(features.counted.X, fitted.idf_),
                   vectorizer |-> fitted]

\* datetime.fromisoformat(event_date.replace('Z', '+00:00')) and the day
\* difference to today; a missing date is not parsed at all
ParseIso(date) ==
    IF date.kind \in {"date", "datetime"}
    THEN [ok |-> TRUE, days |-> date.days]
    ELSE [ok |-> FALSE, days |-> 0]

\* faulty variant: days_away // 2 in place of days_away / 2
DateScoreWholeDays(event) ==
    LET parsed == ParseIso(event.date)
    IN  IF event.date.kind # "none" /\ parsed.ok
           /\ 0 <= parsed.days /\ parsed.days <= DateWindow
        THEN Max(0, DateMax * Scale - (parsed.days \div 2) * Scale)
        ELSE 0

\* 4. Date proximity: 15 - days_away / 2 within 30 days
DateScore(event) ==
    LET parsed == ParseIso(event.date)
    IN  IF event.date.kind # "none" /\ parsed.ok
           /\ 0 <= parsed.days /\ parsed.days <= DateWindow
        THEN Max(0, DateMax * Scale - (parsed.days * Scale) \div 2)
        ELSE 0

\* faulty variant: popularity < 0.9 in place of popularity <= 0.9
PopularityScoreOpenUpper(event) ==
    LET current_participants == event.current_participants
        max_participants == IF event.max_participants = 0 THEN 1
                            ELSE event.max_participants
    IN  IF max_participants > 0
        THEN IF 3 * max_participants <= 10 * current_participants
                /\ 10 * current_participants < 9 * max_participants
             THEN PopularityHigh * Scale
             ELSE IF max_participants <= 10 * current_participants
                     /\ 10 * current_participants < 3 * max_participants
                  THEN PopularityLow * Scale
                  ELSE 0
        ELSE 0

\* 5. Popularity bonus; current / max compared with 0.9, 0.3 and 0.1
PopularityScore(event) ==
    LET current_participants == event.current_participants
        max_participants == IF event.max_participants = 0 THEN 1
                            ELSE event.max_participants
    IN  IF max_participants > 0
        THEN IF 3 * max_participants <= 10 * current_participants
                /\ 10 * current_participants <= 9 * max_participants
             THEN PopularityHigh * Scale
             ELSE IF max_participants <= 10 * current_participants
                     /\ 10 * current_participants < 3 * max_participants
                  THEN PopularityLow * Scale
                  ELSE 0
        ELSE 0

\* min(100, max(0, score))
Clamp(score) == Min(100 * Scale, Max(0, score))

\* .lower() of None raises AttributeError (category at line 35, title and
\* description in _build_event_text)
ScoringRaises(event) ==
    event.category = NULL \/ event.title = NULL \/ event.description = NULL

\* calculate_similarity_score on the parts of the pair that depend on its
\* strings alone (category, tags, features): the score, its five components
\* and the vectorizer after the call
CalculateSimilarityScore(vectorizer, parts, event) ==
    LET category   == parts.category
        tags       == parts.tags
        text       == TextScore(vectorizer, parts.features)
        date       == DateScore(event)
        popularity == PopularityScore(event)
    IN  [score |-> Clamp(category + tags + text.points + date + popularity),
         category |-> category, tags |-> tags, text |-> text.points,
         date |-> date, popularity |-> popularity,
         vectorizer |-> text.vectorizer]

(***************************************************************************)
(* RecommendationService.get_recommendations and its helpers               *)
(***************************************************************************)
\* not favorite_categories and not favorite_tags and not participation_history
NoPreferences(user_profile) ==
    /\ user_profile.favorite_categories = <<>>
    /\ user_profile.favorite_tags = <<>>
    /\ user_profile.participation_history = <<>>

\* the cold-start date parser: fromisoformat when the string has a 'T',
\* else strptime(date_str, '%Y-%m-%d')
ParseColdStart(date) ==
    IF date.kind = "datetime" THEN [ok |-> TRUE, days |-> date.days]
    ELSE IF date.kind = "date" THEN [ok |-> TRUE, days |-> date.days]
    ELSE [ok |-> FALSE, days |-> 0]

\* faulty variant: the popularity bonus of 20 has no upper limit of 0.9
ColdStartScoreNoUpperBound(event) ==
    LET max_participants == IF event.max_participants = 0 THEN 1
                            ELSE event.max_participants
        popularity ==
            IF 3 * max_participants <= 10 * event.current_participants
            THEN ColdPopularityHigh
            ELSE IF max_participants <= 10 * event.current_participants
                 THEN ColdPopularityLow
                 ELSE 0
        parsed == ParseColdStart(event.date)
        soon == IF event.date.kind # "none" /\ parsed.ok
                   /\ 0 <= parsed.days /\ parsed.days <= DateWindow
                THEN ColdDateBonus ELSE 0
    IN  (ColdBase + popularity + soon) * Scale

\* base score for a user without preferences
ColdStartScore(event) ==
    LET max_participants == IF event.max_participants = 0 THEN 1
                            ELSE event.max_participants
        current_participants == event.current_participants
        popularity ==
            IF max_participants > 0
            THEN IF 3 * max_participants <= 10 * current_participants
                    /\ 10 * current_participants <= 9 * max_participants
                 THEN ColdPopularityHigh
                 ELSE IF max_participants <= 10 * current_participants
                         /\ 10 * current_participants < 3 * max_participants
                      THEN ColdPopularityLow
                      ELSE 0
            ELSE 0
        parsed == ParseColdStart(event.date)
        soon == IF event.date.kind # "none" /\ parsed.ok
                   /\ 0 <= parsed.days /\ parsed.days <= DateWindow
                THEN ColdDateBonus ELSE 0
    IN  (ColdBase + popularity + soon) * Scale

\* faulty variant: no minimum of 1
ConfidenceNoMinimum(score) == Min(10, score \div (10 * Scale))

\* faulty variant: round(score / 10) in place of int(score / 10)
ConfidenceRounded(score) ==
    Min(10, Max(1, (score + 5 * Scale) \div (10 * Scale)))

\* min(10, max(1, int(score / 10)))
Confidence(score) == Min(10, Max(1, score \div (10 * Scale)))

\* faulty variant: the cold-start score is computed but not assigned
ScoredEntryNoColdStart(user_profile, event, calculated) ==
    [event |-> event, score |-> calculated.score,
     confidence |-> Min(10, Max(1, calculated.score \div (10 * Scale)))]

\* the entry appended to scored_events for one event (lines 171-213)
ScoredEntry(user_profile, event, calculated) ==
    LET score == IF NoPreferences(user_profile) THEN ColdStartScore(event)
                 ELSE calculated.score
    IN  [event |-> event, score |-> score, confidence |-> Confidence(score)]

RECURSIVE InsertByScoreUnstable(_, _)
\* faulty variant: an unstable sort, a later entry of equal score goes first
InsertByScoreUnstable(sorted, item) ==
    IF sorted = <<>> THEN <<item>>
    ELSE IF Head(sorted).score > item.score
         THEN <<Head(sorted)>> \o InsertByScoreUnstable(Tail(sorted), item)
         ELSE <<item>> \o sorted

RECURSIVE InsertByScore(_, _)
\* item goes behind every entry whose score is not lower
InsertByScore(sorted, item) ==
    IF sorted = <<>> THEN <<item>>
    ELSE IF Head(sorted).score >= item.score
         THEN <<Head(sorted)>> \o InsertByScore(Tail(sorted), item)
         ELSE <<item>> \o sorted

\* faulty variant: the list is formatted in the order it was scored
SortByScoreSkipped(entries) == entries

RECURSIVE SortByScore(_)
\* scored_events.sort(key=score, reverse=True): stable, highest first
SortByScore(entries) ==
    IF entries = <<>> THEN <<>>
    ELSE InsertByScore(SortByScore(SubSeq(entries, 1, Len(entries) - 1)),
                       entries[Len(entries)])

\* faulty variant: the slice stops one element early
SliceExclusive(seq, n) == SubSeq(seq, 1, Min(n, Len(seq)) - 1)

\* seq[:n] of Python
Slice(seq, n) ==
    IF n >= 0 THEN SubSeq(seq, 1, Min(n, Len(seq)))
    ELSE SubSeq(seq, 1, Max(0, Len(seq) + n))

\* faulty variant: the category phrase is also emitted on a substring match
GetMatchFactorsPartialCategory(user_profile, event) ==
    LET matching_tags   == MatchingTags(user_profile, event)
        parsed          == ParseIso(event.date)
        factors ==
            (IF CategoryScore(user_profile, event) > 0
             THEN <<[phrase |-> "Matches your interest in", arg |-> <<event.category>>]>>
             ELSE <<>>)
            \o (IF matching_tags # <<>>
                THEN <<[phrase |-> "Matches your tags:", arg |-> Slice(matching_tags, 2)]>>
                ELSE <<>>)
            \o (IF event.date.kind # "none" /\ parsed.ok
                THEN IF 0 <= parsed.days /\ parsed.days <= SoonDays
                     THEN <<[phrase |-> "Happening soon", arg |-> <<>>]>>
                     ELSE IF SoonDays + 1 <= parsed.days /\ parsed.days <= DateWindow
                          THEN <<[phrase |-> "Upcoming event", arg |-> <<>>]>>
                          ELSE <<>>
                ELSE <<>>)
    IN  IF factors # <<>> THEN factors
        ELSE <<[phrase |-> "Based on your preferences", arg |-> <<>>]>>

\* _get_match_factors
GetMatchFactors(user_profile, event) ==
    LET user_categories == user_profile.favorite_categories
        event_category  == Lower(event.category)
        matching_tags   == MatchingTags(user_profile, event)
        parsed          == ParseIso(event.date)
        factors ==
            (IF \E i \in DOMAIN user_categories :
                    Lower(user_categories[i]) = event_category
             THEN <<[phrase |-> "Matches your interest in", arg |-> <<event.category>>]>>
             ELSE <<>>)
            \o (IF matching_tags # <<>>
                THEN <<[phrase |-> "Matches your tags:", arg |-> Slice(matching_tags, 2)]>>
                ELSE <<>>)
            \o (IF event.date.kind # "none" /\ parsed.ok
                THEN IF 0 <= parsed.days /\ parsed.days <= SoonDays
                     THEN <<[phrase |-> "Happening soon", arg |-> <<>>]>>
                     ELSE IF SoonDays + 1 <= parsed.days /\ parsed.days <= DateWindow
                          THEN <<[phrase |-> "Upcoming event", arg |-> <<>>]>>
                          ELSE <<>>
                ELSE <<>>)
    IN  IF factors # <<>> THEN factors
        ELSE <<[phrase |-> "Based on your preferences", arg |-> <<>>]>>

\* faulty variant: the top band starts above 70
GenerateReasonAboveSeventy(score, match_factors) ==
    LET base == IF score > 70 * Scale THEN "Highly recommended"
                ELSE IF score >= 50 * Scale THEN "Good match"
                ELSE IF score >= 30 * Scale THEN "May interest you"
                ELSE "Based on your activity"
    IN  IF match_factors # <<>>
        THEN [base |-> base, detail |-> match_factors[1]]
        ELSE [base |-> base,
              detail |-> [phrase |-> "based on your event preferences and history",
                          arg |-> <<>>]]

\* _generate_reason: the band phrase and what follows the colon
GenerateReason(score, match_factors) ==
    LET base == IF score >= 70 * Scale THEN "Highly recommended"
                ELSE IF score >= 50 * Scale THEN "Good match"
                ELSE IF score >= 30 * Scale THEN "May interest you"
                ELSE "Based on your activity"
    IN  IF match_factors # <<>>
        THEN [base |-> base, detail |-> match_factors[1]]
        ELSE [base |-> base,
              detail |-> [phrase |-> "based on your event preferences and history",
                          arg |-> <<>>]]

\* round(score, 2): to the nearest hundredth, halves to the even one
Round2(score) ==
    LET unit == Scale \div 100
        q == score \div unit
        r == score % unit
    IN  IF 2 * r > unit \/ (2 * r = unit /\ q % 2 = 1) THEN (q + 1) * unit
        ELSE q * unit

\* one formatted recommendation (lines 221-238)
FormatRecommendation(match_factors, item) ==
    LET reason == GenerateReason(item.score, match_factors)
    IN  [eventId |-> item.event.id,
         title |-> item.event.title,
         reason |-> reason,
         confidence |-> item.confidence,
         score |-> Round2(item.score),
         matchFactors |-> match_factors]

\* lines 215-240: sort, take the top N, format
TopRecommendations(factors, scored, n) ==
    LET top == Slice(SortByScore(scored), n)
    IN  [i \in DOMAIN top |-> FormatRecommendation(factors[top[i].event.id], top[i])]

\* faulty variant: the generic sentence is tried before the category sentence
GenerateInsightsGenericFirst(user_profile, recs) ==
    IF recs = <<>>
    THEN [message |-> "No events available for recommendations at this time. Check back later for new events!",
          count |-> 0, category |-> <<>>]
    ELSE IF NoPreferences(user_profile)
    THEN [message |-> "Welcome! We've found N upcoming event(s) that might interest you.",
          count |-> Len(recs), category |-> <<>>]
    ELSE IF user_profile.favorite_tags # <<>> \/ user_profile.participation_history # <<>>
    THEN [message |-> "We've found N events that match your preferences based on your activity and interests.",
          count |-> Len(recs), category |-> <<>>]
    ELSE [message |-> "Based on your interest in C and your event history, we've found N personalized recommendations for you.",
          count |-> Len(recs), category |-> user_profile.favorite_categories[1]]

\* faulty variant: the profile is examined before the empty list
GenerateInsightsProfileFirst(user_profile, recs) ==
    IF NoPreferences(user_profile)
    THEN [message |-> "Welcome! We've found N upcoming event(s) that might interest you.",
          count |-> Len(recs), category |-> <<>>]
    ELSE IF recs = <<>>
    THEN [message |-> "No events available for recommendations at this time. Check back later for new events!",
          count |-> 0, category |-> <<>>]
    ELSE IF user_profile.favorite_categories # <<>>
    THEN [message |-> "Based on your interest in C and your event history, we've found N personalized recommendations for you.",
          count |-> Len(recs), category |-> user_profile.favorite_categories[1]]
    ELSE [message |-> "We've found N events that match your preferences based on your activity and interests.",
          count |-> Len(recs), category |-> <<>>]

\* generate_insights
GenerateInsights(user_profile, recs) ==
    IF recs = <<>>
    THEN [message |-> "No events available for recommendations at this time. Check back later for new events!",
          count |-> 0, category |-> <<>>]
    ELSE IF NoPreferences(user_profile)
    THEN [message |-> "Welcome! We've found N upcoming event(s) that might interest you.",
          count |-> Len(recs), category |-> <<>>]
    ELSE IF user_profile.favorite_categories # <<>>
    THEN [message |-> "Based on your interest in C and your event history, we've found N personalized recommendations for you.",
          count |-> Len(recs), category |-> user_profile.favorite_categories[1]]
    ELSE [message |-> "We've found N events that match your preferences based on your activity and interests.",
          count |-> Len(recs), category |-> <<>>]

(***************************************************************************)
(* The fallback of the recommendations endpoint (analytics.py 212-232)     *)
(***************************************************************************)
\* the sort key (current_participants, -(days until the event, or 999))
PopularityKeyGreater(a, b) ==
    LET da == IF a.date.kind = "none" THEN NoDateDays ELSE a.date.days
        db == IF b.date.kind = "none" THEN NoDateDays ELSE b.date.days
    IN  \/ a.current_participants > b.current_participants
        \/ a.current_participants = b.current_participants /\ -da > -db

RECURSIVE InsertByPopularity(_, _)
InsertByPopularity(sorted, event) ==
    IF sorted = <<>> THEN <<event>>
    ELSE IF PopularityKeyGreater(event, Head(sorted))
         THEN <<event>> \o sorted
         ELSE <<Head(sorted)>> \o InsertByPopularity(Tail(sorted), event)

RECURSIVE SortByPopularity(_)
\* sorted(available_events, key=..., reverse=True)
SortByPopularity(events) ==
    IF events = <<>> THEN <<>>
    ELSE InsertByPopularity(SortByPopularity(SubSeq(events, 1, Len(events) - 1)),
                            events[Len(events)])

\* faulty variant: the fallback is taken when every score is 0
NeedsFallbackOnZeroScores(recs, events) ==
    events # <<>> /\ \A j \in DOMAIN recs : recs[j].score = 0

\* if not recommendations and available_events
NeedsFallback(recs, events) == recs = <<>> /\ events # <<>>

\* datetime.fromisoformat in the sort key raises on a date it cannot parse
FallbackRaises(events) ==
    \E i \in DOMAIN events : events[i].date.kind = "bad"

FallbackRecommendation(event) ==
    [event |-> event.id, score |-> FallbackScore * Scale,
     confidence |-> FallbackConfidence,
     reason |-> "Popular upcoming event - check it out!",
     matchFactors |-> <<"Popular event", "Upcoming soon">>]

\* faulty variant: the fallback always shows at least one event
FallbackRecommendationsAtLeastOne(events, n) ==
    LET top == Slice(SortByPopularity(events), Max(n, 1))
    IN  [i \in DOMAIN top |-> FallbackRecommendation(top[i])]

\* the recommendations the fallback branch appends
FallbackRecommendations(events, n) ==
    LET top == Slice(SortByPopularity(events), n)
    IN  [i \in DOMAIN top |-> FallbackRecommendation(top[i])]

(***************************************************************************)
(* build_user_profile (analytics.py 24-150) and the request-time override  *)
(* of get_personalized_recommendations (analytics.py 171-182).  A weight   *)
(* dict is the sequence of its items in insertion order.                   *)
(***************************************************************************)
SignupWeight == 1
HistoryWeight == 2
TopCategories == 3
TopTags == 5
OverrideCategories == 3
OverrideTags == 5

\* `if cat:` - neither None nor the empty string
Truthy(label) == label # NULL /\ label # <<>>

\* `x or []`
OrEmpty(x) == IF x = NoList THEN <<>> ELSE x

\* faulty variant: a key that gains weight moves behind the other keys
BumpMoveToEnd(dict, label, w) ==
    IF \E i \in DOMAIN dict : dict[i].label = label
    THEN LET old == CHOOSE i \in DOMAIN dict : dict[i].label = label
         IN  Append(SelectSeq(dict, LAMBDA d : d.label # label),
                    [label |-> label, weight |-> dict[old].weight + w])
    ELSE Append(dict, [label |-> label, weight |-> w])

\* dict[label] = dict.get(label, 0) + w: a new key goes last, a known key
\* keeps its place
Bump(dict, label, w) ==
    IF \E i \in DOMAIN dict : dict[i].label = label
    THEN [i \in DOMAIN dict |->
             IF dict[i].label = label
             THEN [label |-> label, weight |-> dict[i].weight + w]
             ELSE dict[i]]
    ELSE Append(dict, [label |-> label, weight |-> w])

RECURSIVE BumpAll(_, _, _)
\* for label in labels: if label: dict[label] = dict.get(label, 0) + w
BumpAll(dict, labels, w) ==
    IF labels = <<>> THEN dict
    ELSE BumpAll(IF Truthy(Head(labels)) THEN Bump(dict, Head(labels), w) ELSE dict,
                 Tail(labels), w)

\* faulty variant: a history event weighs as much as a signup preference
BumpEventSignupWeight(weights, event) ==
    [categories |-> IF Truthy(event.category)
                    THEN Bump(weights.categories, event.category, SignupWeight)
                    ELSE weights.categories,
     tags |-> BumpAll(weights.tags, OrEmpty(event.tags), SignupWeight)]

\* one pass of either history loop: the event's category and tags gain weight
BumpEvent(weights, event) ==
    [categories |-> IF Truthy(event.category)
                    THEN Bump(weights.categories, event.category, HistoryWeight)
                    ELSE weights.categories,
     tags |-> BumpAll(weights.tags, OrEmpty(event.tags), HistoryWeight)]

RECURSIVE FromCreatedEvents(_, _)
\* lines 89-98
FromCreatedEvents(weights, user_events) ==
    IF user_events = <<>> THEN weights
    ELSE FromCreatedEvents(BumpEvent(weights, Head(user_events)), Tail(user_events))

\* participation_events: the linked events the store still holds
Resolves(participation, stored) ==
    /\ participation.event_id # 0
    /\ \E e \in stored : e.id = participation.event_id

EventData(participation, stored) ==
    CHOOSE e \in stored : e.id = participation.event_id

\* lines 114-118
HistoryItem(event_data) ==
    [title |-> event_data.title,
     category |-> IF Truthy(event_data.category) THEN event_data.category ELSE <<>>,
     tags |-> OrEmpty(event_data.tags)]

RECURSIVE FromParticipations(_, _, _)
\* lines 100-118: run is the weights and the participation_history so far
FromParticipations(run, participations, stored) ==
    IF participations = <<>> THEN run
    ELSE IF Resolves(Head(participations), stored)
         THEN LET event_data == EventData(Head(participations), stored)
                  weights == BumpEvent([categories |-> run.categories, tags |-> run.tags],
                                       event_data)
              IN  FromParticipations(
                      [categories |-> weights.categories, tags |-> weights.tags,
                       participation_history |->
                           Append(run.participation_history, HistoryItem(event_data))],
                      Tail(participations), stored)
         ELSE FromParticipations(run, Tail(participations), stored)

RECURSIVE InsertByWeightUnstable(_, _)
\* faulty variant: an unstable sort, a later item of equal weight goes first
InsertByWeightUnstable(sorted, item) ==
    IF sorted = <<>> THEN <<item>>
    ELSE IF Head(sorted).weight > item.weight
         THEN <<Head(sorted)>> \o InsertByWeightUnstable(Tail(sorted), item)
         ELSE <<item>> \o sorted

RECURSIVE InsertByWeight(_, _)
\* item goes behind every item whose weight is not lower
InsertByWeight(sorted, item) ==
    IF sorted = <<>> THEN <<item>>
    ELSE IF Head(sorted).weight >= item.weight
         THEN <<Head(sorted)>> \o InsertByWeight(Tail(sorted), item)
         ELSE <<item>> \o sorted

RECURSIVE SortByWeight(_)
\* sorted(dict.items(), key=lambda x: x[1], reverse=True): stable
SortByWeight(items) ==
    IF items = <<>> THEN <<>>
    ELSE InsertByWeight(SortByWeight(SubSeq(items, 1, Len(items) - 1)), items[Len(items)])

Labels(items) == [i \in DOMAIN items |-> items[i].label]

\* lines 121-122 and 124-125
Favorites(dict, initial, n) ==
    LET top == Slice(SortByWeight(dict), n)
    IN  IF top # <<>> THEN Labels(top) ELSE Slice(initial, n)

\* len([p for p in participations if p.get('status') == 'attended'])
Attended(participations) ==
    Cardinality({i \in DOMAIN participations : participations[i].status = "attended"})

\* lines 75-118: the weight dicts and the history after the three loops
Accumulate(initial_categories, initial_tags, user_events, participations, stored) ==
    LET seeded == [categories |-> BumpAll(<<>>, initial_categories, SignupWeight),
                   tags |-> BumpAll(<<>>, initial_tags, SignupWeight)]
        created == FromCreatedEvents(seeded, user_events)
    IN  FromParticipations([categories |-> created.categories, tags |-> created.tags,
                            participation_history |-> <<>>],
                           participations, stored)

\* the query of the stage fails: supabase...execute() raises
Fails(input, stage) == input.fail = stage

\* the steps of build_user_profile that leave the outer try by an exception
\* (lines 53, 60 and 70; the query of line 70 runs only with linked ids)
LeavesTry(input) ==
    \/ Fails(input, "events")
    \/ Fails(input, "participants")
    \/ /\ Fails(input, "linked")
       /\ \E i \in DOMAIN input.participations : input.participations[i].event_id # 0

\* faulty variant: the branch of lines 128-130 is left out, so a user without
\* history gets the result of the weight accumulation
BuildProfileNoVerbatim(input) ==
    LET initial_categories == IF Fails(input, "users") THEN <<>> ELSE input.initial_categories
        initial_tags == IF Fails(input, "users") THEN <<>> ELSE input.initial_tags
        run == Accumulate(initial_categories, initial_tags, input.user_events,
                          input.participations, input.stored)
    IN  IF LeavesTry(input)
        THEN [raised |-> TRUE]
        ELSE [raised |-> FALSE,
              profile |->
                [favorite_categories |->
                     IF FALSE THEN Slice(initial_categories, TopCategories)
                     ELSE Favorites(run.categories, initial_categories, TopCategories),
                 favorite_tags |->
                     IF FALSE THEN Slice(initial_tags, TopTags)
                     ELSE Favorites(run.tags, initial_tags, TopTags),
                 participation_history |-> run.participation_history,
                 events_created |-> Len(input.user_events),
                 events_attended |-> Attended(input.participations),
                 has_initial_preferences |->
                     Len(initial_categories) > 0 \/ Len(initial_tags) > 0]]

\* build_user_profile.  An exception in the outer try reaches the handler of
\* line 140, whose first statement reads the name `logger`, which the module
\* never binds: the handler raises NameError and the function returns nothing.
BuildProfile(input) ==
    LET initial_categories == IF Fails(input, "users") THEN <<>> ELSE input.initial_categories
        initial_tags == IF Fails(input, "users") THEN <<>> ELSE input.initial_tags
        run == Accumulate(initial_categories, initial_tags, input.user_events,
                          input.participations, input.stored)
        no_history == input.user_events = <<>> /\ input.participations = <<>>
    IN  IF LeavesTry(input)
        THEN [raised |-> TRUE]
        ELSE [raised |-> FALSE,
              profile |->
                [favorite_categories |->
                     IF no_history THEN Slice(initial_categories, TopCategories)
                     ELSE Favorites(run.categories, initial_categories, TopCategories),
                 favorite_tags |->
                     IF no_history THEN Slice(initial_tags, TopTags)
                     ELSE Favorites(run.tags, initial_tags, TopTags),
                 participation_history |-> run.participation_history,
                 events_created |-> Len(input.user_events),
                 events_attended |-> Attended(input.participations),
                 has_initial_preferences |->
                     Len(initial_categories) > 0 \/ Len(initial_tags) > 0]]

RECURSIVE SplitOnAcc(_, _, _, _)
SplitOnAcc(s, sep, cur, acc) ==
    IF s = <<>> THEN Append(acc, cur)
    ELSE IF Head(s) = sep THEN SplitOnAcc(Tail(s), sep, <<>>, Append(acc, cur))
         ELSE SplitOnAcc(Tail(s), sep, Append(cur, Head(s)), acc)

\* s.split(sep): empty pieces are kept
SplitOn(s, sep) == SplitOnAcc(s, sep, <<>>, <<>>)

RECURSIVE LStrip(_)
LStrip(s) == IF s # <<>> /\ Head(s) = " " THEN LStrip(Tail(s)) ELSE s

RECURSIVE RStrip(_)
RStrip(s) == IF s # <<>> /\ s[Len(s)] = " " THEN RStrip(SubSeq(s, 1, Len(s) - 1)) ELSE s

\* s.strip()
Strip(s) == RStrip(LStrip(s))

\* [c.strip() for c in param.split(',') if c.strip()]
Entries(param) ==
    LET pieces == SplitOn(param, ",")
        stripped == [i \in DOMAIN pieces |-> Strip(pieces[i])]
    IN  SelectSeq(stripped, LAMBDA c : c # <<>>)

\* faulty variant: the counts of created and attended events are not tested
OverrideIgnoringHistory(profile, initial_categories, initial_tags) ==
    IF Truthy(initial_categories) \/ Truthy(initial_tags)
    THEN LET cats == IF Truthy(initial_categories) THEN Entries(initial_categories) ELSE <<>>
             tags == IF Truthy(initial_tags) THEN Entries(initial_tags) ELSE <<>>
         IN  [profile EXCEPT
                 !.favorite_categories = IF cats # <<>> THEN Slice(cats, OverrideCategories) ELSE @,
                 !.favorite_tags = IF tags # <<>> THEN Slice(tags, OverrideTags) ELSE @]
    ELSE profile

\* analytics.py 171-182: initial_categories and initial_tags of the query
\* replace the favourites of a profile without created or attended events
Override(profile, initial_categories, initial_tags) ==
    IF /\ profile.events_created = 0
       /\ profile.events_attended = 0
       /\ (Truthy(initial_categories) \/ Truthy(initial_tags))
    THEN LET cats == IF Truthy(initial_categories) THEN Entries(initial_categories) ELSE <<>>
             tags == IF Truthy(initial_tags) THEN Entries(initial_tags) ELSE <<>>
         IN  [profile EXCEPT
                 !.favorite_categories = IF cats # <<>> THEN Slice(cats, OverrideCategories) ELSE @,
                 !.favorite_tags = IF tags # <<>> THEN Slice(tags, OverrideTags) ELSE @]
    ELSE profile

(***************************************************************************)
(* The inputs of the model                                                 *)
(***************************************************************************)
sEmpty == <<>>
sMusic == <<"m", "u", "s", "i", "c">>
sMusicCap == <<"M", "u", "s", "i", "c">>
sArt == <<"a", "r", "t">>
sParty == <<"p", "a", "r", "t", "y">>
sLive == <<"l", "i", "v", "e">>
sThe == <<"t", "h", "e">>
sLiveMusic == <<"l", "i", "v", "e", " ", "m", "u", "s", "i", "c">>
sCamp == <<"c", "a", "m", "p">>

Profile(cats, tags, history, created, attended, initial) ==
    [favorite_categories |-> cats, favorite_tags |-> tags,
     participation_history |-> history, events_created |-> created,
     events_attended |-> attended, has_initial_preferences |-> initial]

ColdProfile == Profile(<<>>, <<>>, <<>>, 0, 0, FALSE)
MusicFan == Profile(<<sMusic>>, <<sLive>>, <<>>, 0, 0, TRUE)
ArtFan == Profile(<<sArt>>, <<>>, <<>>, 0, 0, TRUE)
Attendee == Profile(<<sMusicCap, sParty>>, <<sLive, sArt>>,
                    <<[title |-> sLiveMusic, category |-> sMusicCap, tags |-> <<sLive>>]>>,
                    1, 1, FALSE)
StopWordFan == Profile(<<sThe>>, <<>>, <<>>, 0, 0, TRUE)

TagFan == Profile(<<>>, <<sLive>>, <<>>, 0, 0, TRUE)

Profiles == {ColdProfile, MusicFan, ArtFan, Attendee, StopWordFan, TagFan}

Date(kind, days) == [kind |-> kind, days |-> days]

Event(id, title, description, category, tags, date, current, max) ==
    [id |-> id, title |-> title, description |-> description,
     category |-> category, tags |-> tags, date |-> date,
     current_participants |-> current, max_participants |-> max]

Events ==
    { Event(1, sLiveMusic, sMusic, sMusicCap, <<sLive, sCamp>>, Date("date", 5), 40, 100),
      Event(2, sParty, sEmpty, sParty, <<>>, Date("datetime", 40), 0, 0),
      Event(3, sMusic, sEmpty, sMusic, NoList, Date("none", 0), 95, 100),
      Event(4, sThe, sEmpty, sEmpty, <<>>, Date("bad", 0), 2, 10),
      Event(5, sCamp, sEmpty, NULL, <<>>, Date("date", 0), 5, 10),
      Event(6, sMusic, sLive, sMusic, <<>>, Date("date", 45), 8, 100) }

EventIds == {e.id : e \in Events}

\* the event dict behind an id
EventById == [i \in EventIds |-> CHOOSE e \in Events : e.id = i]

\* the candidate lists: at most MaxEvents events, each at most once
EventLists ==
    UNION {{l \in [1..n -> EventIds] : \A i, j \in 1..n : l[i] = l[j] => i = j}
           : n \in 0..MaxEvents}

TopNs == (0 - 1)..MaxTopN

\* the events calculate_similarity_score accepts
Scorable == {i \in EventIds : ~ScoringRaises(EventById[i])}

\* The string work of the scorer on every (profile, event) pair of the
\* model, computed once: category and tag points, the text features and the
\* match factors are functions of the pair's strings alone.
PairParts ==
    [p \in Profiles |-> [i \in Scorable |->
        [category |-> CategoryScore(p, EventById[i]),
         tags |-> TagScore(p, EventById[i]),
         features |-> TextFeatures(p, EventById[i]),
         factors |-> GetMatchFactors(p, EventById[i])]]]

\* _get_match_factors per event, for one profile
FactorsOf(p) == [i \in Scorable |-> PairParts[p][i].factors]

RECURSIVE ScoreLoop(_, _, _)
\* the scoring loop (lines 169-213) over the events still to score; run is
\* the list built so far, the vectorizer, and whether an event made
\* calculate_similarity_score raise
ScoreLoop(run, p, events) ==
    IF events = <<>> THEN run
    ELSE LET event == EventById[Head(events)]
         IN  IF ScoringRaises(event) THEN [run EXCEPT !.raised = TRUE]
             ELSE LET calculated ==
                          CalculateSimilarityScore(run.vectorizer, PairParts[p][event.id], event)
                  IN  ScoreLoop(
                          [scored |-> Append(run.scored, ScoredEntry(p, event, calculated)),
                           calculated |-> Append(run.calculated,
                               [score |-> calculated.score,
                                category |-> calculated.category,
                                tags |-> calculated.tags, text |-> calculated.text,
                                date |-> calculated.date,
                                popularity |-> calculated.popularity]),
                           vectorizer |-> calculated.vectorizer,
                           raised |-> FALSE],
                          p, Tail(events))

(***************************************************************************)
(* The recommendations endpoint serving requests one after another on the  *)
(* module-level recommendation_service.  available_events holds the event  *)
(* dicts by reference (their id); scored_events and breakdown are the      *)
(* locals of the last get_recommendations call: the unsorted scored list   *)
(* and what calculate_similarity_score returned for each event.            *)
(***************************************************************************)
VARIABLES pc, user_profile, available_events, top_n, scored_events, breakdown,
          recommendations, insights, vectorizer,
          last_call, remembered,
          wpc, wreq, wX, wscores,
          bpc, builder_input, built_profile, query, final_profile,
          cpc, cold_events, cold_top_n, cold_scored, cold_recommendations,
          component_call, factor_call

vars == <<pc, user_profile, available_events, top_n, scored_events, breakdown,
          recommendations, insights, vectorizer,
          last_call, remembered, wpc, wreq, wX, wscores,
          bpc, builder_input, built_profile, query, final_profile,
          cpc, cold_events, cold_top_n, cold_scored, cold_recommendations,
          component_call, factor_call>>

NoInsights == [message |-> "", count |-> 0, category |-> <<>>]

NoRequest == Profile(<<>>, <<>>, <<>>, 0, 0, FALSE)

\* the request in progress at the endpoint
request == <<pc, user_profile, available_events, top_n, scored_events, breakdown,
             recommendations, insights>>

\* direct calls of calculate_similarity_score (see ScoreCall)
calls == <<last_call, remembered>>

\* requests in parallel threads (see Workers)
workers == <<wpc, wreq, wX, wscores>>

\* the profile of a request being built (see BuildUserProfile)
builder == <<bpc, builder_input, built_profile, query, final_profile>>

\* a request of a user without preferences (see ColdRequest)
cold == <<cpc, cold_events, cold_top_n, cold_scored, cold_recommendations>>

\* direct calls on a new service instance (see ScoreLabelled)
components == <<component_call, factor_call>>

Workers == {1, 2}

NoCall == [profile |-> NoRequest, event |-> 0,
           score |-> 0, raised |-> FALSE]

NoWork == [profile |-> NoRequest, events |-> <<>>]

NoCalls == last_call = NoCall /\ remembered = NoCall

NoWorkers ==
    /\ wpc = [t \in Workers |-> "idle"]
    /\ wreq = [t \in Workers |-> NoWork]
    /\ wX = [t \in Workers |-> <<>>]
    /\ wscores = [t \in Workers |-> <<>>]

NoRequestYet ==
    /\ pc = "idle"
    /\ user_profile = NoRequest
    /\ available_events = <<>>
    /\ top_n = 0
    /\ scored_events = <<>>
    /\ breakdown = <<>>
    /\ recommendations = <<>>
    /\ insights = NoInsights

\* the inputs of build_user_profile and of the override
sTech == <<"t", "e", "c", "h">>
sJazz == <<"j", "a", "z", "z">>
sFood == <<"f", "o", "o", "d">>
sKids == <<"k", "i", "d", "s">>
sFree == <<"f", "r", "e", "e">>
sComma == <<",">>
sSpace == <<" ">>

\* selected_categories of raw_user_meta_data
SignupCategories ==
    { <<>>, <<sMusic>>, <<sMusic, sArt>>, <<sMusic, sMusic>>, <<sEmpty>>,
      <<sMusic, sArt, sParty, sTech>> }

\* selected_tags of raw_user_meta_data
SignupTags ==
    { <<>>, <<sLive, sLive>>, <<sLive, sCamp, sJazz, sFood, sKids, sFree>> }

StoredEvent(id, title, category, tags) ==
    [id |-> id, title |-> title, category |-> category, tags |-> tags]

\* rows of the events table that a history can refer to
StoredEvents ==
    { StoredEvent(11, sLiveMusic, sArt, <<sCamp>>),
      StoredEvent(12, sParty, sMusic, <<sLive, sCamp>>),
      StoredEvent(13, sCamp, NULL, NoList) }

\* rows of the participants table: event 19 is no longer stored, and one
\* row has no event_id
ParticipationRows ==
    { [event_id |-> 11, status |-> "attended"],
      [event_id |-> 12, status |-> "registered"],
      [event_id |-> 19, status |-> "attended"],
      [event_id |-> 0, status |-> "registered"] }

\* the sequences without repetition of at most n elements of S
Rows(S, n) ==
    UNION {{l \in [1..k -> S] : \A i, j \in 1..k : l[i] = l[j] => i = j} : k \in 0..n}

FailPoints == {"none", "users", "events", "participants", "linked"}

BuilderInputs ==
    [initial_categories : SignupCategories,
     initial_tags : SignupTags,
     user_events : Rows(StoredEvents, MaxCreated),
     participations : Rows(ParticipationRows, MaxParticipations),
     stored : {StoredEvents},
     fail : FailPoints]

\* the query parameter initial_categories: absent, empty, or a
\* comma-separated list
QueryCategories ==
    { NULL, sEmpty, sArt,
      sSpace \o sArt \o sSpace \o sComma \o sComma \o sMusic,
      sArt \o sComma \o sArt,
      sArt \o sComma \o sMusic \o sComma \o sParty \o sComma \o sTech,
      sSpace \o sComma \o sSpace }

\* the query parameter initial_tags
QueryTags ==
    { NULL, sLive, sLive \o sComma \o sLive,
      sLive \o sComma \o sCamp \o sComma \o sJazz \o sComma \o sFood
            \o sComma \o sKids \o sComma \o sSpace \o sFree }

NoInput ==
    [initial_categories |-> <<>>, initial_tags |-> <<>>, user_events |-> <<>>,
     participations |-> <<>>, stored |-> StoredEvents, fail |-> "none"]

NoQuery == [initial_categories |-> NULL, initial_tags |-> NULL]

NoBuilder ==
    /\ bpc = "idle"
    /\ builder_input = NoInput
    /\ built_profile = NoRequest
    /\ query = NoQuery
    /\ final_profile = NoRequest

NoCold ==
    /\ cpc = "idle"
    /\ cold_events = <<>>
    /\ cold_top_n = 0
    /\ cold_scored = <<>>
    /\ cold_recommendations = <<>>

sLi == <<"l", "i">>
sCa == <<"c", "a">>
sAm == <<"a", "m">>

NoComponentCall ==
    [profile |-> NoRequest, event |-> Event(0, sEmpty, sEmpty, sEmpty, <<>>, Date("none", 0), 0, 0),
     result |-> [score |-> 0, category |-> 0, tags |-> 0, text |-> 0,
                 date |-> 0, popularity |-> 0]]

NoFactorCall ==
    [profile |-> NoRequest, event |-> NoComponentCall.event, factors |-> <<>>]

\* the module is imported: recommendation_service is constructed
Init ==
    /\ NoRequestYet
    /\ vectorizer = NewVectorizer
    /\ NoCalls
    /\ NoWorkers
    /\ NoBuilder
    /\ NoCold
    /\ component_call = NoComponentCall
    /\ factor_call = NoFactorCall

\* get_personalized_recommendations up to the call of get_recommendations:
\* the profile is built and the candidate events are fetched
Request ==
    /\ pc = "idle"
    /\ \E p \in Profiles, evs \in EventLists, n \in TopNs :
          /\ user_profile' = p
          /\ available_events' = evs
          /\ top_n' = n
    /\ pc' = "called"
    /\ UNCHANGED <<scored_events, breakdown, recommendations, insights, vectorizer>>
    /\ UNCHANGED <<calls, workers, builder, cold, components>>

\* recommendation_service.get_recommendations(user_profile, available_events, top_n)
GetRecommendations ==
    /\ pc = "called"
    /\ IF available_events = <<>>
       THEN /\ recommendations' = <<>>
            /\ pc' = "returned"
            /\ UNCHANGED <<scored_events, breakdown, vectorizer>>
       ELSE \E run \in {ScoreLoop([scored |-> <<>>, calculated |-> <<>>,
                                   vectorizer |-> vectorizer, raised |-> FALSE],
                                  user_profile, available_events)} :
                /\ vectorizer' = run.vectorizer
                /\ IF run.raised
                   THEN /\ pc' = "error"
                        /\ UNCHANGED <<scored_events, breakdown, recommendations>>
                   ELSE /\ scored_events' = run.scored
                        /\ breakdown' = run.calculated
                        /\ recommendations' =
                              TopRecommendations(FactorsOf(user_profile), run.scored, top_n)
                        /\ pc' = "returned"
    /\ UNCHANGED <<user_profile, available_events, top_n, insights>>
    /\ UNCHANGED <<calls, workers, builder, cold, components>>

\* analytics.py 212-232: popular events when there are no recommendations
Fallback ==
    /\ pc = "returned"
    /\ IF NeedsFallback(recommendations, available_events)
       THEN \E events \in {[i \in DOMAIN available_events |->
                                  EventById[available_events[i]]]} :
                IF FallbackRaises(events)
                THEN /\ pc' = "error"
                     /\ UNCHANGED recommendations
                ELSE /\ recommendations' =
                           recommendations \o FallbackRecommendations(events, top_n)
                     /\ pc' = "insights"
       ELSE /\ pc' = "insights"
            /\ UNCHANGED recommendations
    /\ UNCHANGED <<user_profile, available_events, top_n, scored_events, breakdown,
                   insights, vectorizer>>
    /\ UNCHANGED <<calls, workers, builder, cold, components>>

\* analytics.py 235: the insight sentence; the payload is complete
Insights ==
    /\ pc = "insights"
    /\ insights' = GenerateInsights(user_profile, recommendations)
    /\ pc' = "done"
    /\ UNCHANGED <<user_profile, available_events, top_n, scored_events, breakdown,
                   recommendations, vectorizer>>
    /\ UNCHANGED <<calls, workers, builder, cold, components>>

\* the response is sent (the payload, or HTTP 500 after an exception); the
\* request's objects are dropped, the service and its vectorizer live on
Respond ==
    /\ pc \in {"done", "error"}
    /\ pc' = "idle"
    /\ user_profile' = NoRequest
    /\ available_events' = <<>>
    /\ top_n' = 0
    /\ scored_events' = <<>>
    /\ breakdown' = <<>>
    /\ recommendations' = <<>>
    /\ insights' = NoInsights
    /\ UNCHANGED vectorizer
    /\ UNCHANGED <<calls, workers, builder, cold, components>>

Next ==
    \/ Request
    \/ GetRecommendations
    \/ Fallback
    \/ Insights
    \/ Respond

Spec == Init /\ [][Next]_vars

(***************************************************************************)
(* calculate_similarity_score called directly, call after call, on one     *)
(* service instance.  last_call is the latest call and what it returned;   *)
(* remembered is an earlier call a caller has kept for comparison.         *)
(***************************************************************************)
\* recommendation_service.calculate_similarity_score(p, event)
ScoreCall ==
    /\ \E p \in Profiles, i \in EventIds :
          IF ScoringRaises(EventById[i])
          THEN /\ last_call' = [profile |-> p, event |-> i, score |-> 0, raised |-> TRUE]
               /\ UNCHANGED vectorizer
          ELSE \E c \in {CalculateSimilarityScore(vectorizer, PairParts[p][i], EventById[i])} :
               /\ last_call' = [profile |-> p, event |-> i, score |-> c.score,
                                raised |-> FALSE]
               /\ vectorizer' = c.vectorizer
    /\ UNCHANGED <<remembered, request, workers, builder, cold, components>>

\* the caller keeps the latest result
Remember ==
    /\ last_call # NoCall
    /\ remembered' = last_call
    /\ UNCHANGED <<last_call, vectorizer, request, workers, builder, cold, components>>

NextCalls ==
    \/ ScoreCall
    \/ Remember

SpecCalls == Init /\ [][NextCalls]_vars

(***************************************************************************)
(* Two requests in parallel threads on the module-level service.  Each     *)
(* thread scores the events of its own request; the steps of               *)
(* self.vectorizer.fit_transform (count, fit, transform) of the two        *)
(* threads interleave on the one shared vectorizer.  wX is the term count  *)
(* matrix local to a thread's fit_transform call.                          *)
(***************************************************************************)
\* the candidate lists of a thread's request
WorkerEventLists ==
    UNION {{l \in [1..n -> EventIds] : \A i, j \in 1..n : l[i] = l[j] => i = j}
           : n \in 0..MaxConcEvents}

\* the score get_recommendations keeps for the event, given the text points
WorkerScore(p, event, parts, text) ==
    ScoredEntry(p, event,
                [score |-> Clamp(parts.category + parts.tags + text
                                 + DateScore(event) + PopularityScore(event))]).score

\* the event a thread is scoring
WorkerEvent(t) == EventById[wreq[t].events[Len(wscores[t]) + 1]]

WorkerParts(t) == PairParts[wreq[t].profile][wreq[t].events[Len(wscores[t]) + 1]]

\* a request arrives at the thread
WStart(t) ==
    /\ wpc[t] = "idle"
    /\ \E p \in Profiles, evs \in WorkerEventLists :
          wreq' = [wreq EXCEPT ![t] = [profile |-> p, events |-> evs]]
    /\ wpc' = [wpc EXCEPT ![t] = "loop"]
    /\ UNCHANGED <<wX, wscores, vectorizer, request, calls, builder, cold, components>>

\* the loop head and lines 31-59 of calculate_similarity_score, up to the
\* call of fit_transform
WBegin(t) ==
    /\ wpc[t] = "loop"
    /\ IF Len(wscores[t]) = Len(wreq[t].events)
       THEN /\ wpc' = [wpc EXCEPT ![t] = "done"]
            /\ UNCHANGED wscores
       ELSE IF ScoringRaises(WorkerEvent(t))
       THEN /\ wpc' = [wpc EXCEPT ![t] = "error"]
            /\ UNCHANGED wscores
       ELSE IF WorkerParts(t).features.user_text = <<>>
               \/ WorkerParts(t).features.event_text = <<>>
       THEN /\ wscores' = [wscores EXCEPT ![t] =
                  Append(@, WorkerScore(wreq[t].profile, WorkerEvent(t), WorkerParts(t), 0))]
            /\ UNCHANGED wpc
       ELSE /\ wpc' = [wpc EXCEPT ![t] = "count"]
            /\ UNCHANGED wscores
    /\ UNCHANGED <<wreq, wX, vectorizer, request, calls, builder, cold, components>>

\* CountVectorizer.fit_transform: counts the terms and assigns vocabulary_;
\* an empty vocabulary raises, and the except branch scores the overlap
WCount(t) ==
    /\ wpc[t] = "count"
    /\ IF WorkerParts(t).features.counted.vocab = <<>>
       THEN /\ wscores' = [wscores EXCEPT ![t] =
                  Append(@, WorkerScore(wreq[t].profile, WorkerEvent(t), WorkerParts(t),
                                        WorkerParts(t).features.overlap))]
            /\ wpc' = [wpc EXCEPT ![t] = "loop"]
            /\ UNCHANGED <<wX, vectorizer>>
       ELSE /\ wX' = [wX EXCEPT ![t] = WorkerParts(t).features.counted.X]
            /\ vectorizer' = [vectorizer EXCEPT
                                 !.vocabulary_ = WorkerParts(t).features.counted.vocab]
            /\ wpc' = [wpc EXCEPT ![t] = "fit"]
            /\ UNCHANGED wscores
    /\ UNCHANGED <<wreq, request, calls, builder, cold, components>>

\* TfidfTransformer.fit(X): assigns idf_
WFit(t) ==
    /\ wpc[t] = "fit"
    /\ vectorizer' = [vectorizer EXCEPT !.idf_ = FitIdf(wX[t])]
    /\ wpc' = [wpc EXCEPT ![t] = "transform"]
    /\ UNCHANGED <<wreq, wX, wscores, request, calls, builder, cold, components>>

\* TfidfTransformer.transform(X) with the idf_ the vectorizer holds now,
\* cosine_similarity and the rest of calculate_similarity_score
WTransform(t) ==
    /\ wpc[t] = "transform"
    /\ wscores' = [wscores EXCEPT ![t] =
          Append(@, WorkerScore(wreq[t].profile, WorkerEvent(t), WorkerParts(t),
                                IF TransformRaises(wX[t], vectorizer.idf_)
                                THEN WorkerParts(t).features.overlap
                                ELSE CosineTimesMax(wX[t], vectorizer.idf_)))]
    /\ wX' = [wX EXCEPT ![t] = <<>>]
    /\ wpc' = [wpc EXCEPT ![t] = "loop"]
    /\ UNCHANGED <<wreq, vectorizer, request, calls, builder, cold, components>>

NextWorkers ==
    \E t \in Workers :
        \/ WStart(t)
        \/ WBegin(t)
        \/ WCount(t)
        \/ WFit(t)
        \/ WTransform(t)

SpecWorkers == Init /\ [][NextWorkers]_vars

(***************************************************************************)
(* The profile of a request: build_user_profile, then the override by the  *)
(* query parameters initial_categories and initial_tags.  builder_input    *)
(* is what the store answers to the queries of build_user_profile and      *)
(* which of them fails; built_profile is what build_user_profile returns;  *)
(* final_profile is the profile handed to get_recommendations.             *)
(***************************************************************************)
\* analytics.py 169: user_profile = await build_user_profile(user_id, supabase);
\* an exception it raises is answered with HTTP 500 (lines 251-255)
BuildUserProfile ==
    /\ bpc = "idle"
    /\ \E input \in BuilderInputs :
          /\ builder_input' = input
          /\ \E run \in {BuildProfile(input)} :
                IF run.raised
                THEN /\ bpc' = "error"
                     /\ UNCHANGED built_profile
                ELSE /\ bpc' = "built"
                     /\ built_profile' = run.profile
    /\ UNCHANGED <<query, final_profile>>
    /\ UNCHANGED <<vectorizer, request, calls, workers, cold, components>>

\* analytics.py 171-182; the locals of build_user_profile are gone
OverridePreferences ==
    /\ bpc = "built"
    /\ \E qc \in QueryCategories, qt \in QueryTags :
          /\ query' = [initial_categories |-> qc, initial_tags |-> qt]
          /\ final_profile' = Override(built_profile, qc, qt)
    /\ builder_input' = NoInput
    /\ bpc' = "overridden"
    /\ UNCHANGED built_profile
    /\ UNCHANGED <<vectorizer, request, calls, workers, cold, components>>

\* the request goes on to the ranking (or has been answered with HTTP 500)
ProfileDone ==
    /\ bpc \in {"overridden", "error"}
    /\ bpc' = "idle"
    /\ builder_input' = NoInput
    /\ built_profile' = NoRequest
    /\ query' = NoQuery
    /\ final_profile' = NoRequest
    /\ UNCHANGED <<vectorizer, request, calls, workers, cold, components>>

NextProfile ==
    \/ BuildUserProfile
    \/ OverridePreferences
    \/ ProfileDone

SpecProfile == Init /\ [][NextProfile]_vars

(***************************************************************************)
(* get_recommendations for a user without preferences on two candidates    *)
(* of any popularity and date.  Such a profile has an empty user text, so  *)
(* calculate_similarity_score never reaches the vectorizer.                *)
(***************************************************************************)
ColdCurrents == {0, 1, 3, 9, 19}
ColdMaxes == {0, 10, 20}
ColdDates ==
    { Date("none", 0), Date("bad", 0), Date("date", 0), Date("date", DateWindow),
      Date("date", DateWindow + 1), Date("datetime", 10) }

ColdEvent(id, current, max, date) ==
    Event(id, sLiveMusic, sEmpty, sMusic, <<sLive>>, date, current, max)

ColdPairs ==
    { <<ColdEvent(1, c1, m1, d1), ColdEvent(2, c2, m2, d2)>> :
        c1 \in ColdCurrents, m1 \in ColdMaxes, d1 \in ColdDates,
        c2 \in ColdCurrents, m2 \in ColdMaxes, d2 \in ColdDates }

\* the scoring loop of get_recommendations (lines 169-213) on event dicts,
\* for a profile whose user text is empty
ScoredWithoutText(p, events) ==
    [i \in DOMAIN events |->
        ScoredEntry(p, events[i],
            CalculateSimilarityScore(NewVectorizer,
                [category |-> CategoryScore(p, events[i]),
                 tags |-> TagScore(p, events[i]),
                 features |-> [user_text |-> <<>>, event_text |-> BuildEventText(events[i])]],
                events[i]))]

\* a request of a new user with two candidate events
ColdRequest ==
    /\ cpc = "idle"
    /\ \E pair \in ColdPairs, n \in 1..2 :
          /\ cold_events' = pair
          /\ cold_top_n' = n
    /\ cpc' = "called"
    /\ UNCHANGED <<cold_scored, cold_recommendations>>
    /\ UNCHANGED <<vectorizer, request, calls, workers, builder, components>>

\* recommendation_service.get_recommendations(ColdProfile, cold_events, cold_top_n)
ColdRecommend ==
    /\ cpc = "called"
    /\ \E scored \in {ScoredWithoutText(ColdProfile, cold_events)} :
          /\ cold_scored' = scored
          /\ cold_recommendations' =
                TopRecommendations(
                    [i \in {1, 2} |-> GetMatchFactors(ColdProfile, cold_events[i])],
                    scored, cold_top_n)
    /\ cpc' = "returned"
    /\ UNCHANGED <<cold_events, cold_top_n>>
    /\ UNCHANGED <<vectorizer, request, calls, workers, builder, components>>

ColdRespond ==
    /\ cpc = "returned"
    /\ cpc' = "idle"
    /\ cold_events' = <<>>
    /\ cold_top_n' = 0
    /\ cold_scored' = <<>>
    /\ cold_recommendations' = <<>>
    /\ UNCHANGED <<vectorizer, request, calls, workers, builder, components>>

NextCold ==
    \/ ColdRequest
    \/ ColdRecommend
    \/ ColdRespond

SpecCold == Init /\ [][NextCold]_vars

(***************************************************************************)
(* calculate_similarity_score called on a newly constructed                *)
(* RecommendationService, for pairs whose labels, dates and participant    *)
(* counts range over what a profile and an event row can hold.             *)
(* component_call is the pair of the one call observed and the five        *)
(* additions to its score; factor_call is the pair and the list of a call  *)
(* of _get_match_factors.                                                  *)
(***************************************************************************)
\* favorite_categories of the profiles scored by label
LabelCategoryLists ==
    { <<>>, <<sMusic>>, <<sArt>>, <<sMusicCap, sParty>>, <<sLiveMusic>>, <<sEmpty>> }

\* favorite_tags of the profiles scored by label
LabelTagLists ==
    { <<>>, <<sLive>>, <<sMusicCap, sArt>>, <<sLive, sLive, sThe>>,
      <<sLive, sCamp, sLi, sCa, sAm>> }

LabelCategories == {sMusicCap, sParty, sEmpty, sArt, sLiveMusic}

LabelTags ==
    { <<>>, NoList, <<sLive, sCamp>>, <<sLiveMusic>>, <<sLive, sLiveMusic>> }

\* the date column: absent, unparseable, or a day counted from today
ScoreDates ==
    {Date("none", 0), Date("bad", 0), Date("datetime", 0), Date("datetime", 12),
     Date("datetime", 0 - 3)}
    \cup {Date("date", d) : d \in {0 - 1, 0, 1, 7, 8, 29, 30, 31}}

ScoreCurrents == {0, 1, 2, 3, 5, 9, 10, 19}
ScoreMaxes == {0, 10, 20}

\* a call on a new instance: RecommendationService().calculate_similarity_score
ScoreOnNewInstance(profile0, parts, event) ==
    LET calculated == CalculateSimilarityScore(NewVectorizer, parts, event)
    IN  [profile |-> profile0, event |-> event,
         result |-> [score |-> calculated.score, category |-> calculated.category,
                     tags |-> calculated.tags, text |-> calculated.text,
                     date |-> calculated.date, popularity |-> calculated.popularity]]

\* the string work of calculate_similarity_score on the pair
PartsOf(profile0, event) ==
    [category |-> CategoryScore(profile0, event),
     tags |-> TagScore(profile0, event),
     features |-> TextFeatures(profile0, event)]

\* a pair whose categories and tags vary
ScoreLabelled ==
    /\ component_call = NoComponentCall /\ factor_call = NoFactorCall
    /\ \E cats \in LabelCategoryLists, tags \in LabelTagLists,
          category \in LabelCategories, event_tags \in LabelTags :
          \E p \in {Profile(cats, tags, <<>>, 0, 0, TRUE)},
             event \in {Event(21, sParty, sEmpty, category, event_tags,
                              Date("none", 0), 0, 0)} :
             component_call' = ScoreOnNewInstance(p, PartsOf(p, event), event)
    /\ UNCHANGED factor_call
    /\ UNCHANGED <<vectorizer, request, calls, workers, builder, cold>>

\* a pair of the model's profiles and events whose date and participant
\* counts vary
ScoreDated ==
    /\ component_call = NoComponentCall /\ factor_call = NoFactorCall
    /\ \E p \in Profiles, i \in Scorable, date \in ScoreDates,
          current \in ScoreCurrents, max \in ScoreMaxes :
          \E event \in {[EventById[i] EXCEPT !.date = date,
                                             !.current_participants = current,
                                             !.max_participants = max]} :
             component_call' = ScoreOnNewInstance(p, PairParts[p][i], event)
    /\ UNCHANGED factor_call
    /\ UNCHANGED <<vectorizer, request, calls, workers, builder, cold>>

\* _get_match_factors on a pair whose labels and date vary
MatchFactors ==
    /\ component_call = NoComponentCall /\ factor_call = NoFactorCall
    /\ \E cats \in LabelCategoryLists, tags \in LabelTagLists,
          category \in LabelCategories, event_tags \in LabelTags,
          date \in ScoreDates :
          \E p \in {Profile(cats, tags, <<>>, 0, 0, TRUE)},
             event \in {Event(21, sParty, sEmpty, category, event_tags, date, 0, 0)} :
             factor_call' = [profile |-> p, event |-> event,
                             factors |-> GetMatchFactors(p, event)]
    /\ UNCHANGED component_call
    /\ UNCHANGED <<vectorizer, request, calls, workers, builder, cold>>

NextScore ==
    \/ ScoreLabelled
    \/ ScoreDated
    \/ MatchFactors

SpecScore == Init /\ [][NextScore]_vars

(***************************************************************************)
(* Properties of the recommendation list                                   *)
(***************************************************************************)
\* get_recommendations has returned its list
Returned == pc \in {"returned", "insights", "done"}

\* C1: every recommendation get_recommendations returns has a score between
\* 0 and 100 and a whole-number confidence between 1 and 10, on the
\* five-component path and on the cold-start path.
C1_ScoreAndConfidenceInRange ==
    Returned =>
        \A j \in DOMAIN recommendations :
            /\ 0 <= recommendations[j].score
            /\ recommendations[j].score <= 100 * Scale
            /\ recommendations[j].confidence \in 1..10

C1_Witness ==
    /\ pc = "returned"
    /\ ~NoPreferences(user_profile)
    /\ Len(recommendations) >= 2
    /\ \E j \in DOMAIN recommendations : recommendations[j].score >= 70 * Scale
    /\ \E j \in DOMAIN recommendations : recommendations[j].confidence = 1

\* C2: for a non-empty candidate list of n events and top_n >= 1 the call
\* returns exactly min(top_n, n) recommendations, and they are the first
\* min(top_n, n) candidates in the order of score descending, candidates of
\* equal score in their input order.
C2_TopNStableDescending ==
    (pc = "returned" /\ available_events # <<>> /\ top_n >= 1) =>
        LET n == Len(available_events)
            k == Len(recommendations)
            pos == [j \in 1..k |->
                       CHOOSE q \in 1..n :
                           available_events[q] = recommendations[j].eventId]
            Before(a, b) ==
                \/ scored_events[a].score > scored_events[b].score
                \/ scored_events[a].score = scored_events[b].score /\ a < b
        IN  /\ k = Min(top_n, n)
            /\ \A j \in 1..k : \E q \in 1..n :
                   available_events[q] = recommendations[j].eventId
            /\ \A i, j \in 1..k : i < j => Before(pos[i], pos[j])
            /\ \A q \in 1..n : \A j \in 1..k :
                   q \notin {pos[i] : i \in 1..k} => Before(pos[j], q)

C2_Witness ==
    /\ pc = "returned"
    /\ top_n = 1
    /\ Len(available_events) = 2
    /\ scored_events[1].score = scored_events[2].score
    /\ Len(recommendations) = 1
    /\ recommendations[1].eventId = available_events[1]

\* C3: for a profile without favorite categories, favorite tags and history
\* every returned score is exactly 40, plus 20 if p is in [0.3, 0.9] or 10
\* if p is in [0.1, 0.3), plus 10 if the event date is 0 to 30 days ahead,
\* with p = current_participants / max(max_participants, 1).
C3_ColdStartFormula ==
    (Returned /\ user_profile.favorite_categories = <<>>
              /\ user_profile.favorite_tags = <<>>
              /\ user_profile.participation_history = <<>>) =>
        \A j \in DOMAIN recommendations :
            LET e == EventById[recommendations[j].eventId]
                c == e.current_participants
                m == IF e.max_participants >= 1 THEN e.max_participants ELSE 1
                bonus == IF 3 * m <= 10 * c /\ 10 * c <= 9 * m THEN 20
                         ELSE IF m <= 10 * c /\ 10 * c < 3 * m THEN 10 ELSE 0
                soon == IF e.date.kind \in {"date", "datetime"}
                           /\ e.date.days \in 0..30 THEN 10 ELSE 0
            IN  recommendations[j].score = (40 + bonus + soon) * Scale

C3_Witness ==
    /\ pc = "returned"
    /\ NoPreferences(user_profile)
    /\ Len(recommendations) = 2
    /\ recommendations[1].score = 70 * Scale
    /\ recommendations[2].score = 40 * Scale
    /\ breakdown[1].score # 70 * Scale

\* C4: when the event category equals a favorite category, letter case
\* aside, the category component calculate_similarity_score adds is exactly
\* 30.
C4_ExactCategoryIsThirty ==
    Returned =>
        \A i \in DOMAIN breakdown :
            (\E c \in DOMAIN user_profile.favorite_categories :
                 Lower(user_profile.favorite_categories[c])
                     = Lower(EventById[available_events[i]].category))
            => breakdown[i].category = 30 * Scale

C4_Witness ==
    /\ pc = "returned"
    /\ \E i \in DOMAIN breakdown :
          /\ breakdown[i].category = 30 * Scale
          /\ EventById[available_events[i]].category = sMusicCap
          /\ user_profile.favorite_categories = <<sMusic>>

\* C7: a request with top_n >= 1 and a non-empty candidate list hands a
\* non-empty recommendation list to the caller.
C7_NonEmptyForCandidates ==
    (pc = "done" /\ top_n >= 1 /\ available_events # <<>>) => recommendations # <<>>

C7_Witness ==
    /\ pc = "done"
    /\ top_n = 1
    /\ Len(available_events) = 2
    /\ Len(recommendations) = 1

\* every candidate's computed score is 0
AllScoresZero ==
    /\ available_events # <<>>
    /\ Len(scored_events) = Len(available_events)
    /\ \A i \in DOMAIN scored_events : scored_events[i].score = 0

\* C8 as stated: when every candidate's computed score is 0 the result is
\* the popularity ranking, participant count descending, each
\* recommendation with score 50 and confidence 5.
C8_ZeroScoresGiveFallback ==
    (pc = "done" /\ AllScoresZero) =>
        /\ recommendations # <<>>
        /\ \A j \in DOMAIN recommendations :
              /\ recommendations[j].score = 50 * Scale
              /\ recommendations[j].confidence = 5

\* C8 amended: when every candidate's computed score is 0 and top_n >= 1,
\* the result is the first min(top_n, n) candidates in their input order,
\* each with score 0 and confidence 1; the popularity fallback adds nothing.
C8_ZeroScoresKeepInputOrder ==
    (pc = "done" /\ AllScoresZero /\ top_n >= 1) =>
        /\ Len(recommendations) = Min(top_n, Len(available_events))
        /\ \A j \in DOMAIN recommendations :
              /\ "eventId" \in DOMAIN recommendations[j]
              /\ recommendations[j].eventId = available_events[j]
              /\ recommendations[j].score = 0
              /\ recommendations[j].confidence = 1

C8_Witness ==
    /\ pc = "done"
    /\ AllScoresZero
    /\ top_n = 2
    /\ Len(recommendations) = 2
    /\ EventById[available_events[1]].current_participants
           < EventById[available_events[2]].current_participants

\* C9: with an empty candidate list get_recommendations returns an empty
\* list and does not raise, whatever the profile and top_n, and the insight
\* for it is the no-events message.
C9_EmptyCandidates ==
    (available_events = <<>> /\ pc # "idle") =>
        /\ pc # "error"
        /\ Returned => recommendations = <<>>
        /\ pc = "done" =>
              insights.message = "No events available for recommendations at this time. Check back later for new events!"

C9_Witness ==
    /\ pc = "done"
    /\ available_events = <<>>
    /\ NoPreferences(user_profile)
    /\ top_n = 2
    /\ recommendations = <<>>

\* C10 as stated: confidence is round(score / 10) clamped to [1, 10]
C10_ConfidenceIsRounded ==
    pc = "returned" =>
        \A i \in DOMAIN scored_events :
            LET q == scored_events[i].score \div (10 * Scale)
                r == scored_events[i].score % (10 * Scale)
                rounded == IF 2 * r > 10 * Scale \/ (2 * r = 10 * Scale /\ q % 2 = 1)
                           THEN q + 1 ELSE q
            IN  \A j \in DOMAIN recommendations :
                    recommendations[j].eventId = available_events[i]
                    => recommendations[j].confidence = Min(10, Max(1, rounded))

\* C10 amended: confidence is score / 10 cut to a whole number (not
\* rounded), clamped to [1, 10], of the event's unrounded score.
C10_ConfidenceIsTruncated ==
    pc = "returned" =>
        \A i \in DOMAIN scored_events :
            \A j \in DOMAIN recommendations :
                recommendations[j].eventId = available_events[i]
                => recommendations[j].confidence
                       = Min(10, Max(1, scored_events[i].score \div (10 * Scale)))

C10_Witness ==
    /\ pc = "returned"
    /\ \E i \in DOMAIN scored_events : \E j \in DOMAIN recommendations :
          /\ recommendations[j].eventId = available_events[i]
          /\ scored_events[i].score % (10 * Scale) > 5 * Scale
          /\ scored_events[i].score >= 10 * Scale
          /\ recommendations[j].confidence = scored_events[i].score \div (10 * Scale)

(***************************************************************************)
(* Properties of the shared vectorizer                                     *)
(***************************************************************************)
\* C5: scoring the same (profile, event) pair again on the same instance
\* gives the same score, whatever calls ran in between, and after a fit the
\* vectorizer's vocabulary is the vocabulary of the two texts of that call
\* alone.
C5_SamePairSameScore ==
    /\ (remembered # NoCall /\ last_call.profile = remembered.profile
                            /\ last_call.event = remembered.event)
       => (last_call.score = remembered.score /\ last_call.raised = remembered.raised)
    /\ (last_call # NoCall /\ ~last_call.raised) =>
          LET texts == PairParts[last_call.profile][last_call.event].features
          IN  (texts.user_text # <<>> /\ texts.event_text # <<>>
               /\ texts.counted.vocab # <<>>)
              => vectorizer.vocabulary_ = texts.counted.vocab

C5_Witness ==
    /\ remembered # NoCall
    /\ last_call # remembered
    /\ last_call.profile = MusicFan
    /\ last_call.event = 1
    /\ Len(vectorizer.vocabulary_) = 7
    /\ remembered.profile = Attendee

\* the scores a request gets when it runs alone on a new service
AloneScores(p, events) ==
    LET run == ScoreLoop([scored |-> <<>>, calculated |-> <<>>,
                          vectorizer |-> NewVectorizer, raised |-> FALSE], p, events)
    IN  [i \in DOMAIN run.scored |-> run.scored[i].score]

\* C6: two requests running in parallel threads on the module-level
\* service each return the scores they return when run alone, in every
\* interleaving of their fit and transform steps.
C6_ParallelRequestsIndependent ==
    \A t \in Workers :
        wpc[t] = "done" => wscores[t] = AloneScores(wreq[t].profile, wreq[t].events)

(***************************************************************************)
(* Properties of error handling                                            *)
(***************************************************************************)
\* C11: a request with a negative top_n is rejected before any candidate is
\* scored: no candidate is scored and no recommendation list is returned
\* for top_n < 0.
C11_NegativeTopNRejected ==
    top_n < 0 => (scored_events = <<>> /\ ~Returned)

\* C12: when a step of build_user_profile that fetches or aggregates the
\* history fails, build_user_profile returns the empty-but-valid profile
\* and the request goes on with it.
C12_FailureGivesEmptyProfile ==
    (bpc # "idle" /\ LeavesTry(builder_input)) =>
        /\ bpc = "built"
        /\ built_profile = Profile(<<>>, <<>>, <<>>, 0, 0, FALSE)

\* C13: with candidates whose title, description, category, tags or date
\* is missing or null, get_recommendations returns a list and never raises:
\* a call of get_recommendations does not end in an exception.
C13_MalformedEventsNeverRaise ==
    [][pc = "called" => pc' # "error"]_vars

(***************************************************************************)
(* Properties of the profile                                               *)
(***************************************************************************)
NoDuplicates(seq) == \A i, j \in DOMAIN seq : seq[i] = seq[j] => i = j

\* C14: the profile handed to the ranking engine, after build_user_profile
\* and the override, has no label twice in favorite_categories and none
\* twice in favorite_tags.
C14_NoDuplicateFavorites ==
    bpc = "overridden" =>
        /\ NoDuplicates(final_profile.favorite_categories)
        /\ NoDuplicates(final_profile.favorite_tags)

\* the first n elements
FirstN(seq, n) == SubSeq(seq, 1, IF Len(seq) < n THEN Len(seq) ELSE n)

\* the trimmed non-empty entries of a supplied list, none when it is absent
Supplied(param) == IF Truthy(param) THEN Entries(param) ELSE <<>>

\* C15: for a built profile with events_created = 0 and events_attended = 0,
\* a supplied category list with an entry replaces favorite_categories by
\* its first 3 trimmed non-empty entries and a supplied tag list replaces
\* favorite_tags by its first 5; otherwise both are left as built; the
\* other fields of the profile are never changed.
C15_OverrideReplacesFavorites ==
    bpc = "overridden" =>
        LET zero == built_profile.events_created = 0 /\ built_profile.events_attended = 0
            cats == Supplied(query.initial_categories)
            tags == Supplied(query.initial_tags)
        IN  /\ final_profile.favorite_categories =
                  IF zero /\ cats # <<>> THEN FirstN(cats, 3)
                  ELSE built_profile.favorite_categories
            /\ final_profile.favorite_tags =
                  IF zero /\ tags # <<>> THEN FirstN(tags, 5)
                  ELSE built_profile.favorite_tags
            /\ final_profile.participation_history = built_profile.participation_history
            /\ final_profile.events_created = built_profile.events_created
            /\ final_profile.events_attended = built_profile.events_attended
            /\ final_profile.has_initial_preferences = built_profile.has_initial_preferences

\* a built profile with two signup categories and no events, overridden by
\* " art ,,music" and by six tags
C15_Witness ==
    /\ bpc = "overridden"
    /\ built_profile.favorite_categories = <<sMusic, sMusic>>
    /\ built_profile.events_created = 0
    /\ built_profile.events_attended = 0
    /\ query.initial_categories = sSpace \o sArt \o sSpace \o sComma \o sComma \o sMusic
    /\ Len(Supplied(query.initial_tags)) = 6
    /\ final_profile.favorite_categories = <<sArt, sMusic>>
    /\ final_profile.favorite_tags = <<sLive, sCamp, sJazz, sFood, sKids>>

(***************************************************************************)
(* Properties of the insight sentence                                      *)
(***************************************************************************)
\* C16: generate_insights applies its rules in priority: no recommendation
\* gives the no-events message; else a profile without categories, tags and
\* history gives the welcome message with the count; else a profile with a
\* favourite category gives the message naming favorite_categories[0] and
\* the count; else the generic message with the count.
C16_InsightRulesInPriority ==
    pc = "done" =>
        LET n == Len(recommendations)
            nothing == /\ user_profile.favorite_categories = <<>>
                       /\ user_profile.favorite_tags = <<>>
                       /\ user_profile.participation_history = <<>>
        IN  IF n = 0
            THEN insights.message = "No events available for recommendations at this time. Check back later for new events!"
            ELSE /\ insights.count = n
                 /\ IF nothing
                    THEN insights.message = "Welcome! We've found N upcoming event(s) that might interest you."
                    ELSE IF user_profile.favorite_categories # <<>>
                    THEN /\ insights.message = "Based on your interest in C and your event history, we've found N personalized recommendations for you."
                         /\ insights.category = user_profile.favorite_categories[1]
                    ELSE insights.message = "We've found N events that match your preferences based on your activity and interests."

\* a profile with tags only got the generic sentence for two recommendations
C16_Witness ==
    /\ pc = "done"
    /\ user_profile.favorite_categories = <<>>
    /\ user_profile.favorite_tags # <<>>
    /\ Len(recommendations) = 2
    /\ insights.count = 2
    /\ insights.message = "We've found N events that match your preferences based on your activity and interests."

(***************************************************************************)
(* Properties of the cold start ranking                                    *)
(***************************************************************************)
\* max(max_participants, 1)
Capacity(event) == IF event.max_participants < 1 THEN 1 ELSE event.max_participants

\* p = current_participants / max(max_participants, 1) lies in [0.3, 0.9]
PopularityInWindow(event) ==
    /\ 3 * Capacity(event) <= 10 * event.current_participants
    /\ 10 * event.current_participants <= 9 * Capacity(event)

\* p < 0.1 or p > 0.9
PopularityUnrewarded(event) ==
    \/ 10 * event.current_participants < Capacity(event)
    \/ 10 * event.current_participants > 9 * Capacity(event)

\* the event date is 0..30 days ahead
WithinThirtyDays(event) ==
    /\ event.date.kind \in {"date", "datetime"}
    /\ 0 <= event.date.days /\ event.date.days <= 30

\* C17: for a profile without preferences, a candidate with p in [0.3, 0.9]
\* scores at least 60, a candidate with p < 0.1 or p > 0.9 scores 40 plus
\* the date bonus only (at most 50), and the former is ranked above the
\* latter whatever their dates.
C17_PopularRanksAboveUnrewarded ==
    cpc = "returned" =>
        \A i, j \in DOMAIN cold_events :
            (PopularityInWindow(cold_events[i]) /\ PopularityUnrewarded(cold_events[j])) =>
                /\ cold_scored[i].score >= 60 * Scale
                /\ cold_scored[j].score =
                      (40 + IF WithinThirtyDays(cold_events[j]) THEN 10 ELSE 0) * Scale
                /\ cold_scored[j].score <= 50 * Scale
                /\ cold_recommendations[1].eventId = cold_events[i].id
                /\ Len(cold_recommendations) = 2 =>
                      cold_recommendations[2].eventId = cold_events[j].id

\* the second candidate is at p = 0.45 without a date, the first at p = 0.95
\* with a date today: 60 ranks above 50
C17_Witness ==
    /\ cpc = "returned"
    /\ cold_events[1].current_participants = 19 /\ cold_events[1].max_participants = 20
    /\ cold_events[1].date = Date("date", 0)
    /\ cold_events[2].current_participants = 9 /\ cold_events[2].max_participants = 20
    /\ cold_events[2].date = Date("none", 0)
    /\ Len(cold_recommendations) = 2
    /\ cold_recommendations[1].eventId = 2 /\ cold_recommendations[1].score = 60 * Scale
    /\ cold_recommendations[2].eventId = 1 /\ cold_recommendations[2].score = 50 * Scale

(***************************************************************************)
(* Properties of the interest weights.  The contributions of an input are  *)
(* listed in the order the code visits them: signup preferences, authored  *)
(* events, participations whose event is stored.                           *)
(***************************************************************************)
RECURSIVE Flatten(_)
Flatten(lists) == IF lists = <<>> THEN <<>> ELSE Head(lists) \o Flatten(Tail(lists))

\* the signup list build_user_profile works with
SignupSeen(input, list) == IF input.fail = "users" THEN <<>> ELSE list

\* the events of the history in the order of the two loops
HistoryEvents(input) ==
    LET resolved == SelectSeq(input.participations,
                              LAMBDA part : Resolves(part, input.stored))
    IN  input.user_events
        \o [i \in DOMAIN resolved |-> EventData(resolved[i], input.stored)]

Weighted(labels, w) == [i \in DOMAIN labels |-> [label |-> labels[i], weight |-> w]]

NonEmptyLabels(contributions) ==
    SelectSeq(contributions, LAMBDA c : c.label # NULL /\ c.label # <<>>)

\* weight 1 per signup category, weight 2 per category of a history event
CategoryContributions(input) ==
    LET history == HistoryEvents(input)
    IN  NonEmptyLabels(
            Weighted(SignupSeen(input, input.initial_categories), 1)
            \o Weighted([i \in DOMAIN history |-> history[i].category], 2))

\* weight 1 per signup tag, weight 2 per tag of a history event
TagContributions(input) ==
    LET history == HistoryEvents(input)
    IN  NonEmptyLabels(
            Weighted(SignupSeen(input, input.initial_tags), 1)
            \o Weighted(Flatten([i \in DOMAIN history |->
                                    IF history[i].tags = NoList THEN <<>>
                                    ELSE history[i].tags]), 2))

LabelsOf(contributions) == {contributions[i].label : i \in DOMAIN contributions}

TotalWeight(label, contributions) ==
    SumSeq([i \in DOMAIN contributions |->
               IF contributions[i].label = label THEN contributions[i].weight ELSE 0])

\* the contribution that inserts the label
FirstSeen(label, contributions) ==
    CHOOSE i \in DOMAIN contributions :
        /\ contributions[i].label = label
        /\ \A j \in 1..(i - 1) : contributions[j].label # label

\* the contribution that brings the label to its final weight
ReachedFinal(label, contributions) ==
    CHOOSE i \in DOMAIN contributions :
        /\ contributions[i].label = label
        /\ \A j \in (i + 1)..Len(contributions) : contributions[j].label # label

Position(label, favorites) ==
    CHOOSE i \in DOMAIN favorites :
        favorites[i] = label /\ \A j \in 1..(i - 1) : favorites[j] # label

InFavorites(label, favorites) == \E i \in DOMAIN favorites : favorites[i] = label

\* favorites is the n highest-weight labels in non-increasing weight order
TopByWeight(favorites, contributions, n) ==
    /\ NoDuplicates(favorites)
    /\ \A i \in DOMAIN favorites : favorites[i] \in LabelsOf(contributions)
    /\ Len(favorites) = Min(n, Cardinality(LabelsOf(contributions)))
    /\ \A i, j \in DOMAIN favorites :
          i < j => TotalWeight(favorites[i], contributions)
                   >= TotalWeight(favorites[j], contributions)
    /\ \A label \in LabelsOf(contributions), i \in DOMAIN favorites :
          InFavorites(label, favorites)
          \/ TotalWeight(label, contributions) <= TotalWeight(favorites[i], contributions)

\* build_user_profile has returned a profile of a user with an authored
\* event or a participation
BuiltWithHistory ==
    /\ bpc = "built"
    /\ (builder_input.user_events # <<>> \/ builder_input.participations # <<>>)

\* C18: with weight 1 per signup occurrence, 2 per authored event and 2 per
\* participation whose event resolves, for the category and each tag, a user
\* with an authored event or a participation gets the 3 highest-weight
\* categories and the 5 highest-weight tags, in non-increasing weight order.
C18_FavoritesAreTopWeights ==
    BuiltWithHistory =>
        /\ TopByWeight(built_profile.favorite_categories,
                       CategoryContributions(builder_input), 3)
        /\ TopByWeight(built_profile.favorite_tags,
                       TagContributions(builder_input), 5)

\* C18 as the code has it: when no label gained weight (the signup entries
\* are all empty and no history event carries a label), the favourites are
\* the first 3 signup categories, or first 5 signup tags, as they stand.
C18_FavoritesAreTopWeightsOrSignup ==
    BuiltWithHistory =>
        LET categories == CategoryContributions(builder_input)
            tags == TagContributions(builder_input)
        IN  /\ IF categories # <<>>
               THEN TopByWeight(built_profile.favorite_categories, categories, 3)
               ELSE built_profile.favorite_categories =
                       FirstN(SignupSeen(builder_input, builder_input.initial_categories), 3)
            /\ IF tags # <<>>
               THEN TopByWeight(built_profile.favorite_tags, tags, 5)
               ELSE built_profile.favorite_tags =
                       FirstN(SignupSeen(builder_input, builder_input.initial_tags), 5)

\* four signup categories and six signup tags, one authored event and one
\* attended event: music 3, art 3, party 1, tech 1; camp 5, live 3, others 1
C18_Witness ==
    /\ BuiltWithHistory
    /\ Len(builder_input.initial_categories) = 4
    /\ Len(builder_input.initial_tags) = 6
    /\ Len(builder_input.user_events) = 1
    /\ builder_input.user_events[1].id = 12
    /\ builder_input.participations = <<[event_id |-> 11, status |-> "attended"]>>
    /\ built_profile.favorite_categories = <<sMusic, sArt, sParty>>
    /\ built_profile.favorite_tags = <<sCamp, sLive, sJazz, sFood, sKids>>

\* of two labels of equal weight, first is in front whenever second is listed
InFrontOf(first, second, favorites) ==
    InFavorites(second, favorites) =>
        /\ InFavorites(first, favorites)
        /\ Position(first, favorites) < Position(second, favorites)

\* C19: of two labels with equal accumulated weight, the one first inserted
\* into the weight mapping (signup preferences, then authored events, then
\* participations) appears earlier in favorite_categories / favorite_tags.
C19_TiesKeepFirstSeenOrder ==
    bpc = "built" =>
        /\ \A a, b \in LabelsOf(CategoryContributions(builder_input)) :
              LET c == CategoryContributions(builder_input)
              IN  (a # b /\ TotalWeight(a, c) = TotalWeight(b, c)
                   /\ FirstSeen(a, c) < FirstSeen(b, c))
                  => InFrontOf(a, b, built_profile.favorite_categories)
        /\ \A a, b \in LabelsOf(TagContributions(builder_input)) :
              LET c == TagContributions(builder_input)
              IN  (a # b /\ TotalWeight(a, c) = TotalWeight(b, c)
                   /\ FirstSeen(a, c) < FirstSeen(b, c))
                  => InFrontOf(a, b, built_profile.favorite_tags)

\* signup tag live twice (2), then camp from an authored event (2): a tie
\* that live, seen first, wins
C19_Witness ==
    /\ bpc = "built"
    /\ builder_input.initial_tags = <<sLive, sLive>>
    /\ Len(builder_input.user_events) = 1
    /\ builder_input.user_events[1].id = 11
    /\ builder_input.participations = <<>>
    /\ TotalWeight(sLive, TagContributions(builder_input)) = 2
    /\ TotalWeight(sCamp, TagContributions(builder_input)) = 2
    /\ built_profile.favorite_tags = <<sLive, sCamp>>

\* C20: of two labels with equal accumulated weight, the one that first
\* reached that weight during accumulation gets the earlier slot.
C20_TiesKeepFirstReachedOrder ==
    bpc = "built" =>
        /\ \A a, b \in LabelsOf(CategoryContributions(builder_input)) :
              LET c == CategoryContributions(builder_input)
              IN  (a # b /\ TotalWeight(a, c) = TotalWeight(b, c)
                   /\ ReachedFinal(a, c) < ReachedFinal(b, c))
                  => InFrontOf(a, b, built_profile.favorite_categories)
        /\ \A a, b \in LabelsOf(TagContributions(builder_input)) :
              LET c == TagContributions(builder_input)
              IN  (a # b /\ TotalWeight(a, c) = TotalWeight(b, c)
                   /\ ReachedFinal(a, c) < ReachedFinal(b, c))
                  => InFrontOf(a, b, built_profile.favorite_tags)

\* C20 as the code has it: of two labels with equal accumulated weight, the
\* one first inserted into the weight mapping gets the earlier slot, also
\* when the other label reached that weight first.
C20_FirstSeenBeatsFirstReached ==
    bpc = "built" =>
        /\ \A a, b \in LabelsOf(CategoryContributions(builder_input)) :
              LET c == CategoryContributions(builder_input)
              IN  (a # b /\ TotalWeight(a, c) = TotalWeight(b, c)
                   /\ FirstSeen(a, c) < FirstSeen(b, c)
                   /\ ReachedFinal(b, c) < ReachedFinal(a, c))
                  => InFrontOf(a, b, built_profile.favorite_categories)
        /\ \A a, b \in LabelsOf(TagContributions(builder_input)) :
              LET c == TagContributions(builder_input)
              IN  (a # b /\ TotalWeight(a, c) = TotalWeight(b, c)
                   /\ FirstSeen(a, c) < FirstSeen(b, c)
                   /\ ReachedFinal(b, c) < ReachedFinal(a, c))
                  => InFrontOf(a, b, built_profile.favorite_tags)

\* signup music, art (1 each); an authored art event brings art to 3; an
\* event the user registered for brings music to 3 afterwards: music, seen
\* first, is still in front
C20_Witness ==
    /\ bpc = "built"
    /\ builder_input.initial_categories = <<sMusic, sArt>>
    /\ Len(builder_input.user_events) = 1
    /\ builder_input.user_events[1].id = 11
    /\ builder_input.participations = <<[event_id |-> 12, status |-> "registered"]>>
    /\ builder_input.fail = "none"
    /\ ReachedFinal(sArt, CategoryContributions(builder_input))
           < ReachedFinal(sMusic, CategoryContributions(builder_input))
    /\ built_profile.favorite_categories = <<sMusic, sArt>>

(***************************************************************************)
(* Properties of the five additions of calculate_similarity_score          *)
(***************************************************************************)
Called == component_call # NoComponentCall

\* a occurs in b as a contiguous run of characters
Occurs(a, b) ==
    \E k \in 0..Len(b) :
        /\ k + Len(a) <= Len(b)
        /\ \A n \in 1..Len(a) : b[k + n] = a[n]

CallCategories == component_call.profile.favorite_categories
CallCategory == Lower(component_call.event.category)

ExactCategory == \E i \in DOMAIN CallCategories : Lower(CallCategories[i]) = CallCategory

PartialCategory ==
    \E i \in DOMAIN CallCategories :
        \/ Occurs(Lower(CallCategories[i]), CallCategory)
        \/ Occurs(CallCategory, Lower(CallCategories[i]))

\* C22: the category addition is 0, 15 or 30; when the event category equals
\* no favorite category it is 15 exactly when a favorite category occurs in
\* the event category or the event category occurs in a favorite category
\* (case-insensitively), so an empty event category earns 15 as soon as the
\* profile has a favorite category.
C22_PartialCategoryIsFifteen ==
    Called =>
        /\ component_call.result.category \in {0, 15 * Scale, 30 * Scale}
        /\ ~ExactCategory =>
              /\ component_call.result.category = 15 * Scale <=> PartialCategory
              /\ component_call.result.category # 15 * Scale
                    => component_call.result.category = 0
              /\ (CallCategory = <<>> /\ CallCategories # <<>>)
                    => component_call.result.category = 15 * Scale

C22_Witness ==
    /\ Called
    /\ CallCategory = <<>>
    /\ CallCategories # <<>>
    /\ ~ExactCategory
    /\ component_call.result.category = 15 * Scale

CallTags == component_call.profile.favorite_tags

CallEventTags ==
    IF component_call.event.tags = NoList THEN <<>> ELSE component_call.event.tags

\* the positions of the favorite tags that occur in at least one event tag
MatchingPositions ==
    {i \in DOMAIN CallTags :
        \E j \in DOMAIN CallEventTags :
            Occurs(Lower(CallTags[i]), Lower(CallEventTags[j]))}

\* C23: the tag addition is min(20, 5 * m), m being the number of favorite
\* tags that equal or occur in at least one event tag, case-insensitively;
\* a favorite tag counts once however many event tags it matches, and an
\* event without tags earns 0.
C23_TagComponentCapped ==
    Called =>
        /\ component_call.result.tags
              = (IF 5 * Cardinality(MatchingPositions) > 20 THEN 20
                 ELSE 5 * Cardinality(MatchingPositions)) * Scale
        /\ CallEventTags = <<>> => component_call.result.tags = 0

C23_Witness ==
    /\ Called
    /\ Cardinality(MatchingPositions) = 5
    /\ component_call.result.tags = 20 * Scale
    /\ \E i \in MatchingPositions :
          Cardinality({j \in DOMAIN CallEventTags :
                         Occurs(Lower(CallTags[i]), Lower(CallEventTags[j]))}) = 1

CallDate == component_call.event.date

DateAhead ==
    /\ CallDate.kind \in {"date", "datetime"}
    /\ 0 <= CallDate.days /\ CallDate.days <= 30

\* the result of the same call for the same event without a date
WithoutDate ==
    CalculateSimilarityScore(
        NewVectorizer,
        PartsOf(component_call.profile, component_call.event),
        [component_call.event EXCEPT !.date = Date("none", 0)])

\* C24: the date addition is 15 - days_away / 2 for a date 0 to 30 days
\* ahead, never negative, and 0 for a past, far, missing or unparseable
\* date; the other four additions are what they are without the date, and
\* the score is their clamped sum.
C24_DateComponent ==
    Called =>
        /\ DateAhead =>
              /\ 2 * component_call.result.date = (30 - CallDate.days) * Scale
              /\ component_call.result.date >= 0
        /\ ~DateAhead => component_call.result.date = 0
        /\ component_call.result.category = WithoutDate.category
        /\ component_call.result.tags = WithoutDate.tags
        /\ component_call.result.text = WithoutDate.text
        /\ component_call.result.popularity = WithoutDate.popularity
        /\ component_call.result.score
              = Min(100 * Scale, WithoutDate.score + component_call.result.date)

C24_Witness ==
    /\ Called
    /\ CallDate.kind = "date"
    /\ CallDate.days = 29
    /\ 2 * component_call.result.date = Scale
    /\ component_call.result.category = 30 * Scale

\* C25: with p = current_participants / max(max_participants, 1), the
\* popularity addition is 10 for p in [0.3, 0.9], 5 for p in [0.1, 0.3) and
\* 0 otherwise; an event with max_participants = 0 and at least one
\* participant earns 0.
C25_PopularityComponent ==
    Called =>
        LET c == component_call.event.current_participants
            m == Capacity(component_call.event)
        IN  /\ (3 * m <= 10 * c /\ 10 * c <= 9 * m)
                  => component_call.result.popularity = 10 * Scale
            /\ (m <= 10 * c /\ 10 * c < 3 * m)
                  => component_call.result.popularity = 5 * Scale
            /\ (10 * c < m \/ 10 * c > 9 * m)
                  => component_call.result.popularity = 0
            /\ (component_call.event.max_participants = 0 /\ c >= 1)
                  => component_call.result.popularity = 0

C25_Witness ==
    /\ Called
    /\ component_call.event.max_participants = 0
    /\ component_call.event.current_participants >= 1
    /\ component_call.result.popularity = 0

(***************************************************************************)
(* Properties of a profile built for a user without history                *)
(***************************************************************************)
BuiltWithoutHistory ==
    /\ bpc = "built"
    /\ builder_input.user_events = <<>>
    /\ builder_input.participations = <<>>

\* C21: for a user with no authored event and no participation record,
\* build_user_profile returns the first 3 signup categories and the first 5
\* signup tags as they were read, in signup order and with their
\* repetitions; empty signup lists give empty favorites.
C21_NoHistoryUsesSignupVerbatim ==
    BuiltWithoutHistory =>
        /\ built_profile.favorite_categories
              = FirstN(SignupSeen(builder_input, builder_input.initial_categories), 3)
        /\ built_profile.favorite_tags
              = FirstN(SignupSeen(builder_input, builder_input.initial_tags), 5)
        /\ SignupSeen(builder_input, builder_input.initial_categories) = <<>>
              => built_profile.favorite_categories = <<>>
        /\ SignupSeen(builder_input, builder_input.initial_tags) = <<>>
              => built_profile.favorite_tags = <<>>

C21_Witness ==
    /\ BuiltWithoutHistory
    /\ builder_input.fail = "none"
    /\ builder_input.initial_categories = <<sMusic, sMusic>>
    /\ Len(builder_input.initial_tags) = 6
    /\ built_profile.favorite_categories = <<sMusic, sMusic>>
    /\ Len(built_profile.favorite_tags) = 5

\* C29 (as stated): whenever the override of lines 171-182 replaces
\* favorite_categories or favorite_tags, participation_history is empty.
C29_OverrideOnlyWithoutHistory ==
    (/\ bpc = "overridden"
     /\ \/ final_profile.favorite_categories # built_profile.favorite_categories
        \/ final_profile.favorite_tags # built_profile.favorite_tags)
        => built_profile.participation_history = <<>>

(***************************************************************************)
(* Properties of the formatted recommendations                             *)
(***************************************************************************)
Generic == [phrase |-> "Based on your preferences", arg |-> <<>>]

Explained == factor_call # NoFactorCall

\* the favorite tags of the call that occur in a tag of its event
TagsMatching ==
    LET event_tags == IF factor_call.event.tags = NoList THEN <<>>
                      ELSE factor_call.event.tags
    IN  SelectSeq(factor_call.profile.favorite_tags,
                  LAMBDA tag : \E j \in DOMAIN event_tags :
                                   Occurs(Lower(tag), Lower(event_tags[j])))

CategoryEquals ==
    \E i \in DOMAIN factor_call.profile.favorite_categories :
        Lower(factor_call.profile.favorite_categories[i])
            = Lower(factor_call.event.category)

CategoryOccurs ==
    \E i \in DOMAIN factor_call.profile.favorite_categories :
        \/ Occurs(Lower(factor_call.profile.favorite_categories[i]),
                  Lower(factor_call.event.category))
        \/ Occurs(Lower(factor_call.event.category),
                  Lower(factor_call.profile.favorite_categories[i]))

DaysAhead(from, to) ==
    /\ factor_call.event.date.kind \in {"date", "datetime"}
    /\ from <= factor_call.event.date.days /\ factor_call.event.date.days <= to

ExpectedFactors ==
    (IF CategoryEquals
     THEN <<[phrase |-> "Matches your interest in",
             arg |-> <<factor_call.event.category>>]>>
     ELSE <<>>)
    \o (IF TagsMatching # <<>>
        THEN <<[phrase |-> "Matches your tags:", arg |-> FirstN(TagsMatching, 2)]>>
        ELSE <<>>)
    \o (IF DaysAhead(0, 7) THEN <<[phrase |-> "Happening soon", arg |-> <<>>]>>
        ELSE IF DaysAhead(8, 30)
             THEN <<[phrase |-> "Upcoming event", arg |-> <<>>]>>
             ELSE <<>>)

\* C26: the match factors _get_match_factors returns for a recommendation
\* are non-empty and are, in this order, the category phrase iff the event
\* category equals a favorite category case-insensitively, the tag phrase
\* with the first at most 2 matching favorite tags iff a tag matches, and
\* 'Happening soon' for a date 0..7 days ahead or 'Upcoming event' for 8..30
\* days; when none applies the list is the generic placeholder alone.
C26_MatchFactorsInOrder ==
    Explained =>
        /\ factor_call.factors # <<>>
        /\ ExpectedFactors # <<>> => factor_call.factors = ExpectedFactors
        /\ ExpectedFactors = <<>> => factor_call.factors = <<Generic>>

C26_Witness ==
    /\ Explained
    /\ CategoryOccurs
    /\ ~CategoryEquals
    /\ Len(TagsMatching) > 2
    /\ Len(factor_call.factors) = 2
    /\ factor_call.factors[1].phrase = "Matches your tags:"
    /\ Len(factor_call.factors[1].arg) = 2
    /\ factor_call.factors[2].phrase = "Upcoming event"

Band(score) ==
    IF score >= 70 * Scale THEN "Highly recommended"
    ELSE IF score >= 50 * Scale THEN "Good match"
    ELSE IF score >= 30 * Scale THEN "May interest you"
    ELSE "Based on your activity"

\* C27: the reason of every recommendation is the band phrase of its
\* unrounded score (from 70 'Highly recommended', from 50 'Good match', from
\* 30 'May interest you', else 'Based on your activity') followed by its
\* first match factor; the generic closing clause is never produced.
C27_ReasonIsBandAndFirstFactor ==
    Returned =>
        \A i \in DOMAIN recommendations :
            /\ \E k \in DOMAIN scored_events :
                  /\ scored_events[k].event.id = recommendations[i].eventId
                  /\ recommendations[i].reason.base = Band(scored_events[k].score)
            /\ recommendations[i].reason.detail = recommendations[i].matchFactors[1]
            /\ recommendations[i].reason.detail.phrase
                  # "based on your event preferences and history"

C27_Witness ==
    /\ Returned
    /\ \E i \in DOMAIN recommendations :
          /\ \E k \in DOMAIN scored_events :
                /\ scored_events[k].event.id = recommendations[i].eventId
                /\ scored_events[k].score = 70 * Scale
          /\ recommendations[i].reason.base = "Highly recommended"
          /\ recommendations[i].reason.detail = recommendations[i].matchFactors[1]

C30_ConfidenceNonIncreasing ==
    Returned =>
        \A i, j \in DOMAIN recommendations :
            i < j => recommendations[i].confidence >= recommendations[j].confidence

C30_Witness ==
    /\ Returned
    /\ Len(recommendations) = 2
    /\ recommendations[1].confidence > recommendations[2].confidence
    /\ scored_events[1].event.id = recommendations[2].eventId
    /\ scored_events[2].event.id = recommendations[1].eventId

====
